---------------------------- MODULE Spec2Model ----------------------------
(***************************************************************************)
(* Model of the table-driven bottom-up parser of Italian-Brain-Rot-Language *)
(* (src/src/utils/syntactic): FIRST/FOLLOW, the LR(0) automaton, the SLR(1)  *)
(* table with its CSV persistence, and the shift/reduce loop with the       *)
(* derivation tree.                                                        *)
(*                                                                         *)
(* Conventions.  Python lists are sequences; Python list index k is         *)
(* sequence index k+1.  A Python dict whose order matters (the grammar) is  *)
(* a sequence of <<key, value>> pairs.  A Python str that the code formats  *)
(* or parses ('s12', 'r3', '45') is a sequence of one-character strings.    *)
(* A Python set is a set; where the code iterates over a set the iteration  *)
(* order is not fixed by the language (it follows the per-process string    *)
(* hash seed), so it is a choice among IterOrders.                          *)
(***************************************************************************)
EXTENDS Integers, Sequences, FiniteSets, TLC
(***************************************************************************)
(* State                                                                   *)
(***************************************************************************)
VARIABLES
    pc,              \* where the program is
    order,           \* the iteration order of sets in the process that builds the table
    input_grammar,   \* the grammar that compute_first_follow and augment_grammar are handed
    ff_csv,          \* the file data/first_follow.csv
    augmented,       \* what augment_grammar returned
    readable,        \* whether data/slr_table.csv can be opened and read
    other_call,      \* the locals of a second call of derv that is suspended, if there is one
    ff_set,          \* main: the FIRST/FOLLOW sets
    states,          \* compute_lr0_states: list of item sets
    transitions,     \* compute_lr0_states: (state, symbol) -> state
    i,               \* compute_lr0_states: worklist index
    table,           \* build_slr_table: {'action': ..., 'goto': ...}
    state_num,       \* build_slr_table: index of the per-item pass
    slr_csv,         \* the file data/slr_table.csv
    edited,          \* whether the file was changed after it was saved
    input,           \* derv: which token list of Inputs it was handed
    lines_popped,    \* parse: how many line_list.pop(0) were done
    slr_dict,        \* derv: what read_slr_table returned, column -> list of cells
    stack,           \* parse
    tokens_popped,   \* parse: how many input_tokens.pop(0) were done
    current_token,   \* parse
    current_lexeme,  \* parse
    step_count,      \* parse
    error_list,      \* parse
    last_error_key,  \* parse
    error_streak,    \* parse
    all_nodes,       \* DerivationTree.all_nodes: node id k is all_nodes[k]
    node_stack,      \* DerivationTree.node_stack: node ids
    root,            \* DerivationTree.root: a node id, 0 for None
    result           \* what parse returned or raised

\* what no step of the table build, of derv or of parse assigns
run_vars == << order, input_grammar, ff_csv, augmented, readable, other_call >>
build_vars == << ff_set, states, transitions, i, table, state_num >>
file_vars == << slr_csv, edited >>
derv_vars == << input, slr_dict >>
tree_vars == << all_nodes, node_stack, root >>
parse_vars == << stack, tokens_popped, current_token, current_lexeme, step_count,
                 error_list, last_error_key, error_streak, result >>
vars == << pc, run_vars, build_vars, file_vars, derv_vars, lines_popped, tree_vars, parse_vars >>

(***************************************************************************)
(* gramatica_util.py                                                       *)
(***************************************************************************)
\* The empty-production marker (the one-character string U+03B5 in the source).
EPS == "epsilon"
ENDMARK == "$"

gramatica == <<
    << "PROGRAMA", << << "LISTA_DE_COMANDOS" >> >> >>,
    << "LISTA_DE_COMANDOS", << << "COMANDO", "LISTA_DE_COMANDOS" >>, << "COMANDO" >> >> >>,
    << "COMANDO", << << "DECLARACAO" >>, << "ENTRADA" >>, << "SAIDA" >>, << "DECISAO" >>, << "LACO_CONTADO" >>, << "LACO_DE_REPETICAO" >>, << "ATRIBUICAO" >>, << "COMENTARIO" >> >> >>,
    << "DECLARACAO", << << "TIPO_DE_VARIAVEL", "id", ";" >>, << "TIPO_DE_VARIAVEL", "id", "ATRIBUICAO", ";" >> >> >>,
    << "ATRIBUICAO", << << "=", "TERMO" >>, << "=", "EXPRESSAO" >>, << "TERMO", "=", "EXPRESSAO", ";" >> >> >>,
    << "EXPRESSAO", << << "EXPRESSAO", "OPERADOR", "TERMO" >>, << "TERMO" >> >> >>,
    << "OPERADOR", << << "OPERADOR_ARITMETICO" >>, << "OPERADOR_RELACIONAL" >>, << "OPERADOR_LOGICO" >> >> >>,
    << "ENTRADA", << << "batapim", "id", ";" >> >> >>,
    << "SAIDA", << << "chimpanzini", "EXPRESSAO", ";" >> >> >>,
    << "DECISAO", << << "lirili", "EXPRESSAO", "BLOCO" >>, << "lirili", "EXPRESSAO", "BLOCO", "larila", "BLOCO" >>, << "lirili", "EXPRESSAO", "BLOCO", "larila", "DECISAO" >> >> >>,
    << "LACO_CONTADO", << << "dunmadin", "(", "DECLARACAO", ";", "EXPRESSAO", ";", "EXPRESSAO", ")", "BLOCO" >> >> >>,
    << "LACO_DE_REPETICAO", << << "tung", "EXPRESSAO", "BLOCO" >> >> >>,
    << "BLOCO", << << "BLOCO_DECISAO" >>, << "BLOCO_REPETICAO" >> >> >>,
    << "BLOCO_REPETICAO", << << "sahur", "LISTA_DE_COMANDOS", "sahur" >> >> >>,
    << "BLOCO_DECISAO", << << "delimitare", "LISTA_DE_COMANDOS", "finitini" >> >> >>,
    << "COMENTARIO", << << "saturnita", "TERMO" >> >> >>,
    << "TIPO_DE_VARIAVEL", << << "tralalero" >>, << "tralala" >>, << "porcodio" >>, << "porcoala" >> >> >>,
    << "OPERADOR_ARITMETICO", << << "+" >>, << "-" >>, << "*" >>, << "/" >>, << "%" >> >> >>,
    << "OPERADOR_RELACIONAL", << << "==" >>, << "!=" >>, << ">" >>, << "<" >>, << "<=" >>, << ">=" >> >> >>,
    << "OPERADOR_LOGICO", << << "&&" >>, << "||" >> >> >>,
    << "TERMO", << << "id" >>, << "valor_inteiro" >>, << "valor_real" >>, << "VALOR_BOOL" >>, << "caractere" >>, << "string" >> >> >>,
    << "VALOR_BOOL", << << "tripi" >>, << "tropa" >> >> >> >>

\* dict helpers: grammar.keys(), key in grammar, grammar[key]
Keys(grammar) == [k \in 1..Len(grammar) |-> grammar[k][1]]
KeySet(grammar) == {grammar[k][1] : k \in 1..Len(grammar)}
Lookup(grammar, key) == grammar[CHOOSE k \in 1..Len(grammar) : grammar[k][1] = key][2]
SeqToSet(s) == {s[k] : k \in 1..Len(s)}

ALL_NONTERMINALS == KeySet(gramatica)
ALL_TERMINALS ==
    UNION {UNION {SeqToSet(prod) : prod \in SeqToSet(gramatica[k][2])} : k \in 1..Len(gramatica)}
        \ (ALL_NONTERMINALS \cup {EPS})

(***************************************************************************)
(* Iteration over Python sets.  The order a set of strings or tuples is     *)
(* visited in depends on the hash seed of the process; "asc" and "desc" are *)
(* two of the orders a build can see, by a fixed rank of the elements.      *)
(***************************************************************************)
IterOrders == {"asc", "desc"}

\* sorted(ALL_TERMINALS) and sorted(ALL_NONTERMINALS): Python's str order
SortedTerminals == << "!=", "%", "&&", "(", ")", "*", "+", "-", "/", ";", "<", "<=", "=", "==", ">", ">=", "batapim", "caractere", "chimpanzini", "delimitare", "dunmadin", "finitini", "id", "larila", "lirili", "porcoala", "porcodio", "sahur", "saturnita", "string", "tralala", "tralalero", "tripi", "tropa", "tung", "valor_inteiro", "valor_real", "||" >>
SortedNonterminals == << "ATRIBUICAO", "BLOCO", "BLOCO_DECISAO", "BLOCO_REPETICAO", "COMANDO", "COMENTARIO", "DECISAO", "DECLARACAO", "ENTRADA", "EXPRESSAO", "LACO_CONTADO", "LACO_DE_REPETICAO", "LISTA_DE_COMANDOS", "OPERADOR", "OPERADOR_ARITMETICO", "OPERADOR_LOGICO", "OPERADOR_RELACIONAL", "PROGRAMA", "SAIDA", "TERMO", "TIPO_DE_VARIAVEL", "VALOR_BOOL" >>

IndexOf(s, x) == CHOOSE k \in 1..Len(s) : s[k] = x

\* the elements of the finite set S as a sequence of increasing rank[x]
\* (rank is one-to-one on S)
SortByRank(S, rank) ==
    LET r == [x \in S |-> rank[x]]
        below(x) == Cardinality({ y \in S : r[y] < r[x] })
        place == { << below(x) + 1, x >> : x \in S }
    IN  [k \in 1..Cardinality(S) |-> (CHOOSE p \in place : p[1] = k)[2]]

\* v itself.  TLC evaluates an argument, and a function [x \in S |-> e], only when it is
\* used; the comparison makes it evaluate v here, once
Evaluated(v) == IF v = v THEN v ELSE v

RECURSIVE FoldSeq(_, _, _)
\* a for loop over the sequence s that updates acc: Op(... Op(Op(acc, s[1]), s[2]) ..., s[n]).
\* It is evaluated by halves, the first half before the second, so that the evaluation
\* nests log(n) deep and not n deep.
FoldSeq(Op(_, _), acc, s) ==
    IF s = << >> THEN acc
    ELSE IF Len(s) = 1 THEN Op(acc, s[1])
    ELSE LET h == Len(s) \div 2
             first_half == FoldSeq(Op, acc, SubSeq(s, 1, h))
         IN  IF first_half = first_half
             THEN FoldSeq(Op, first_half, SubSeq(s, h + 1, Len(s)))
             ELSE first_half

Reverse(s) == [k \in 1..Len(s) |-> s[Len(s) + 1 - k]]

\* for x in S, with S a set, under iteration order `order`
IterSet(S, rank, ord) ==
    IF ord = "asc" THEN SortByRank(S, rank) ELSE Reverse(SortByRank(S, rank))

(***************************************************************************)
(* slr_util.py: augment_grammar                                            *)
(***************************************************************************)
\* d.update(other) of dicts kept as sequences of (key, value) in insertion order: a key
\* that d has keeps its place and takes the new value, a new key goes to the end
dict_update(d, other) ==
    FoldSeq(LAMBDA acc, entry :
                IF entry[1] \in KeySet(acc)
                THEN [k \in 1..Len(acc) |-> IF acc[k][1] = entry[1] THEN entry ELSE acc[k]]
                ELSE Append(acc, entry),
            d, other)

\* an augmentation that puts the synthetic production after the entries of the grammar
augment_grammar_appended(grammar) ==
    dict_update(grammar, << << "S'", << << Keys(grammar)[1] >> >> >> >>)

augment_grammar(grammar) ==
    LET start_symbol == Keys(grammar)[1]
        augmented_dict == << << "S'", << << start_symbol >> >> >> >>
    IN  dict_update(augmented_dict, grammar)


(***************************************************************************)
(* ff_util.py: FIRST and FOLLOW                                            *)
(***************************************************************************)
RECURSIVE compute_first(_, _)
compute_first(prod_list, grammar) ==
    UNION { IF prod[1] \in ALL_TERMINALS THEN {prod[1]}
            ELSE IF prod[1] = EPS THEN {EPS}
            ELSE IF prod[1] = "EXPRESSAO" THEN {}
            ELSE IF prod[1] \in ALL_NONTERMINALS
                 THEN compute_first(Lookup(grammar, prod[1]), grammar)
            ELSE {}
          : prod \in SeqToSet(prod_list) }

\* what one occurrence of key at position i of production A -> production adds
FollowContribution(A, production, idx, key, first_sets, follow_sets) ==
    IF idx + 1 <= Len(production)
    THEN LET beta == production[idx + 1]
         IN  IF beta \in ALL_TERMINALS THEN {beta}
             ELSE IF beta \in ALL_NONTERMINALS
                  THEN (first_sets[beta] \ {EPS})
                       \cup (IF EPS \in first_sets[beta] THEN follow_sets[A] ELSE {})
             ELSE {}
    ELSE IF A # key THEN follow_sets[A] ELSE {}

compute_follow(key, grammar, first_sets, follow_sets) ==
    follow_sets[key] \cup
    UNION { FollowContribution(grammar[a][1], grammar[a][2][p], idx, key, first_sets, follow_sets)
            : <<a, p, idx>> \in UNION { UNION { { <<a, p, idx>> : idx \in { j \in 1..Len(grammar[a][2][p]) :
                                                                        grammar[a][2][p][j] = key } }
                                               : p \in 1..Len(grammar[a][2]) }
                                       : a \in 1..Len(grammar) } }

RECURSIVE FollowPass(_, _, _, _)
\* for key in grammar: one pass, in declaration order, over the keys from k on
FollowPass(k, grammar, first_sets, follow_sets) ==
    IF k > Len(grammar) THEN follow_sets
    ELSE LET key == grammar[k][1]
             upd == IF k = 1 THEN follow_sets[key] \cup {ENDMARK}
                    ELSE compute_follow(key, grammar, first_sets, follow_sets)
         IN  FollowPass(k + 1, grammar, first_sets, [follow_sets EXCEPT ![key] = upd])

\* a computation that leaves the end marker out of every FOLLOW set
compute_first_follow_unmarked(grammar) ==
    LET first == [nt \in KeySet(grammar) |-> compute_first(Lookup(grammar, nt), grammar)]
        follow == FollowPass(1, grammar, first, [nt \in KeySet(grammar) |-> {}])
    IN  [nt \in KeySet(grammar) |-> [first |-> first[nt], follow |-> follow[nt] \ {ENDMARK}]]

compute_first_follow(grammar) ==
    LET first == [nt \in KeySet(grammar) |-> compute_first(Lookup(grammar, nt), grammar)]
        follow == FollowPass(1, grammar, first, [nt \in KeySet(grammar) |-> {}])
    IN  [nt \in KeySet(grammar) |-> [first |-> first[nt], follow |-> follow[nt]]]

(***************************************************************************)
(* slr_util.py: LR(0) items, closure, goto, the canonical collection        *)
(***************************************************************************)
\* an item is the tuple (lhs, before_dot, after_dot)
closure_new_items(closure_set, grammar) ==
    UNION { { << item[3][1], << >>, production >>
              : production \in SeqToSet(Lookup(grammar, item[3][1])) }
            : item \in { it \in closure_set :
                           /\ it[3] # << >>
                           /\ it[3][1] \in ALL_NONTERMINALS
                           /\ it[3][1] \in KeySet(grammar) } } \ closure_set

\* a closure that stops after the first round of additions
closure_once(items, grammar) == items \cup closure_new_items(items, grammar)

RECURSIVE closure(_, _)
closure(items, grammar) ==
    LET new_items == closure_new_items(items, grammar)
    IN  IF new_items = {} THEN items ELSE closure(items \cup new_items, grammar)

goto(items, symbol, grammar) ==
    LET goto_set == { << item[1], Append(item[2], item[3][1]), Tail(item[3]) >>
                      : item \in { it \in items : it[3] # << >> /\ it[3][1] = symbol } }
    IN  IF goto_set # {} THEN closure(goto_set, grammar) ELSE {}

\* every (lhs, production) of the grammar, flattened in declaration order
RECURSIVE FlattenFrom(_, _)
FlattenFrom(grammar, k) ==
    IF k > Len(grammar) THEN << >>
    ELSE [p \in 1..Len(grammar[k][2]) |-> << grammar[k][1], grammar[k][2][p] >>]
         \o FlattenFrom(grammar, k + 1)
ProductionList(grammar) == FlattenFrom(grammar, 1)

\* ranks that fix the two iteration orders of a set of symbols / of items
SymbolRank == LET all == SortedTerminals \o << ENDMARK >> \o SortedNonterminals \o << EPS >>
              IN  [sym \in SeqToSet(all) |-> IndexOf(all, sym)]
ItemRank(items, grammar) ==
    LET pl == ProductionList(grammar)
    IN  [item \in items |-> 16 * IndexOf(pl, << item[1], item[2] \o item[3] >>) + Len(item[2])]

\* state_map: the id (0-based) of an item set already in states
state_map_has(state_list, item_set) == \E k \in 1..Len(state_list) : state_list[k] = item_set
\* the id of the state appended last, whichever state was looked up
state_map_get_last(state_list, item_set) == Len(state_list) - 1
state_map_get(state_list, item_set) == (CHOOSE k \in 1..Len(state_list) : state_list[k] = item_set) - 1

lr0_initial(grammar) ==
    LET start_symbol == Keys(grammar)[2]
        start_item == << "S'", << >>, << start_symbol >> >>
    IN  [states |-> << closure({start_item}, grammar) >>,
         transitions |-> << >>,
         i |-> 0]

\* the body of "for symbol in all_symbols" for one symbol
lr0_symbol(st, symbol, grammar) ==
    LET next_state == goto(st.states[st.i + 1], symbol, grammar)
    IN  IF next_state = {} THEN st
        ELSE LET states2 == IF state_map_has(st.states, next_state) THEN st.states
                            ELSE Append(st.states, next_state)
             IN  [st EXCEPT !.states = states2,
                            !.transitions = (<< st.i, symbol >> :> state_map_get(states2, next_state)) @@ @]

\* "for symbol in all_symbols", in the order symbols
lr0_symbols(st, symbols, grammar) ==
    FoldSeq(LAMBDA s, symbol : lr0_symbol(s, symbol, grammar), st, symbols)

\* one iteration of "while i < len(states)"
lr0_iteration(st, grammar, ord) ==
    LET current_state == st.states[st.i + 1]
        all_symbols == { item[3][1] : item \in { it \in current_state : it[3] # << >> } }
        st2 == lr0_symbols(st, IterSet(all_symbols, SymbolRank, ord), grammar)
    IN  [st2 EXCEPT !.i = st.i + 1]

(***************************************************************************)
(* Python str values that are formatted or parsed: sequences of characters  *)
(***************************************************************************)
Digits == << "0", "1", "2", "3", "4", "5", "6", "7", "8", "9" >>

RECURSIVE str(_)
\* str(n), f'{n}' for an int n >= 0
str(n) == IF n < 10 THEN << Digits[n + 1] >>
          ELSE str(n \div 10) \o << Digits[(n % 10) + 1] >>

IsDigits(text) == text # << >> /\ \A k \in 1..Len(text) : text[k] \in SeqToSet(Digits)

RECURSIVE int(_)
\* int(text) for a text of decimal digits
int(text) == IF Len(text) = 1 THEN IndexOf(Digits, text[1]) - 1
             ELSE 10 * int(SubSeq(text, 1, Len(text) - 1)) + (IndexOf(Digits, text[Len(text)]) - 1)

TXT_acc == << "a", "c", "c" >>
TXT_error == << "e", "r", "r", "o", "r" >>
TXT_empty == << >>
\* f's{n}' and f'r{n}'
ShiftText(next_state) == << "s" >> \o str(next_state)
ReduceText(prod_num) == << "r" >> \o str(prod_num)
\* text.startswith(c) for a one-character c
startswith(text, c) == text # << >> /\ text[1] = c

\* d[key] = value on a dict d kept as a function; d.get(key, '')
DictSet(d, key, value) == (key :> value) @@ d
DictGet(d, key) == IF key \in DOMAIN d THEN d[key] ELSE TXT_empty
EmptyDict == << >>

(***************************************************************************)
(* slr_util.py: build_slr_table                                            *)
(***************************************************************************)
\* the productions of the original grammar (without S'), numbered from 0
table_productions(grammar) ==
    ProductionList(SelectSeq(grammar, LAMBDA e : e[1] # "S'"))

HasProduction(productions, lhs, rhs) == \E k \in 1..Len(productions) : productions[k] = << lhs, rhs >>
\* productions.index((lhs, rhs)): the first position, 0-based
ProductionIndex(productions, lhs, rhs) ==
    (CHOOSE k \in 1..Len(productions) :
        /\ productions[k] = << lhs, rhs >>
        /\ \A j \in 1..(k - 1) : productions[j] # << lhs, rhs >>) - 1

\* the reduce cells a complete item writes: one per terminal-or-end of FOLLOW(lhs)
reduce_cells(row, prod_num, follow_set) ==
    Evaluated([t \in DOMAIN row \cup { sym \in follow_set : sym \in ALL_TERMINALS \/ sym = ENDMARK } |->
                  IF t \in follow_set /\ (t \in ALL_TERMINALS \/ t = ENDMARK)
                  THEN ReduceText(prod_num) ELSE row[t]])

\* the body of "for item in state" for one item; row is table['action'][state_num]
table_item(row, item, num, trans, productions, first_follow) ==
    LET lhs == item[1]
        before_dot == item[2]
        after_dot == item[3]
    IN  IF after_dot # << >> /\ after_dot[1] \in ALL_TERMINALS
        THEN IF << num, after_dot[1] >> \in DOMAIN trans
             THEN DictSet(row, after_dot[1], ShiftText(trans[<< num, after_dot[1] >>]))
             ELSE row
        ELSE IF after_dot = << >> /\ lhs # "S'"
        THEN IF HasProduction(productions, lhs, before_dot) /\ lhs \in DOMAIN first_follow
             THEN reduce_cells(row, ProductionIndex(productions, lhs, before_dot),
                               first_follow[lhs].follow)
             ELSE row
        ELSE IF after_dot = << >> /\ lhs = "S'"
        THEN DictSet(row, ENDMARK, TXT_acc)
        ELSE row

\* "for item in state", in the order items
table_items(row, items, num, trans, productions, first_follow) ==
    FoldSeq(LAMBDA r, item : table_item(r, item, num, trans, productions,
                                        first_follow),
            row, items)

\* a GOTO row that records the state itself in place of the target of the transition
table_goto_row_self(num, trans) ==
    [nt \in { n \in ALL_NONTERMINALS : << num, n >> \in DOMAIN trans } |-> num]

\* "for nt in ALL_NONTERMINALS: if (state_num, nt) in transitions": the row of table['goto']
table_goto_row(num, trans) ==
    [nt \in { n \in ALL_NONTERMINALS : << num, n >> \in DOMAIN trans } |->
        trans[<< num, nt >>]]

\* one iteration of "for state_num, state in enumerate(states)"
table_state(tbl, num, state, trans, grammar, first_follow, ord) ==
    LET productions == table_productions(grammar)
        row == table_items(EmptyDict, IterSet(state, ItemRank(state, grammar), ord),
                           num, trans, productions, first_follow)
        goto_row == table_goto_row(num, trans)
    IN  [action |-> IF DOMAIN row = {} THEN tbl.action ELSE DictSet(tbl.action, num, row),
         goto |-> IF DOMAIN goto_row = {} THEN tbl.goto ELSE DictSet(tbl.goto, num, goto_row)]

\* sorted(ALL_TERMINALS) + [ENDMARK]
TerminalColumns == SortedTerminals \o << ENDMARK >>

\* a default fill that copies the Reduce and leaves the other empty cells empty
fill_terminal_reduce_only(row, terminal) ==
    LET value == DictGet(row, terminal)
    IN  IF startswith(value, "r")
        THEN Evaluated([t \in DOMAIN row \cup SeqToSet(TerminalColumns) |->
                           IF t \in DOMAIN row THEN row[t] ELSE value])
        ELSE row

\* the body of "for terminal in sorted(ALL_TERMINALS) + [ENDMARK]" of the default fill
fill_terminal(row, terminal) ==
    LET value == DictGet(row, terminal)
    IN  IF startswith(value, "s") THEN row
        ELSE IF startswith(value, "r")
        THEN Evaluated([t \in DOMAIN row \cup SeqToSet(TerminalColumns) |->
                           IF t \in DOMAIN row THEN row[t] ELSE value])
        ELSE IF terminal \notin DOMAIN row THEN DictSet(row, terminal, TXT_error)
        ELSE row

\* "for terminal in sorted(ALL_TERMINALS) + [ENDMARK]" for one row
fill_terminals(row, terminals) == FoldSeq(fill_terminal, row, terminals)

\* "for state in table['action']": the default-fill pass
default_fill(tbl) ==
    [tbl EXCEPT !.action = [state \in DOMAIN tbl.action |->
                                 fill_terminals(tbl.action[state], TerminalColumns)]]

(***************************************************************************)
(* slr_util.py: save_slr_table; derv_util.py: read_slr_table                *)
(* The file is its header row (column names) and its data rows (cell texts) *)
(***************************************************************************)
Max(S) == CHOOSE x \in S : \A y \in S : y <= x

\* a writer that leaves the state number out of the data rows
save_slr_table_without_state(tbl) ==
    LET terminals == TerminalColumns
        nonterminals == SortedNonterminals
        max_state == Max(DOMAIN tbl.action \cup DOMAIN tbl.goto \cup {-1})
    IN  [header |-> << "State" >> \o terminals \o nonterminals,
         rows |-> [r \in 1..(max_state + 1) |->
                     [c \in 1..Len(terminals) |->
                        IF (r - 1) \in DOMAIN tbl.action
                        THEN DictGet(tbl.action[r - 1], terminals[c]) ELSE TXT_empty]
                     \o [c \in 1..Len(nonterminals) |->
                        IF (r - 1) \in DOMAIN tbl.goto /\ nonterminals[c] \in DOMAIN tbl.goto[r - 1]
                        THEN str(tbl.goto[r - 1][nonterminals[c]]) ELSE TXT_empty]]]

save_slr_table(tbl) ==
    LET terminals == TerminalColumns
        nonterminals == SortedNonterminals
        max_state == Max(DOMAIN tbl.action \cup DOMAIN tbl.goto \cup {-1})
        action_cell(state, terminal) ==
            IF state \in DOMAIN tbl.action THEN DictGet(tbl.action[state], terminal)
            ELSE TXT_empty
        goto_cell(state, nt) ==
            IF state \in DOMAIN tbl.goto /\ nt \in DOMAIN tbl.goto[state]
            THEN str(tbl.goto[state][nt]) ELSE TXT_empty
    IN  [header |-> << "State" >> \o terminals \o nonterminals,
         rows |-> [r \in 1..(max_state + 1) |->
                     << str(r - 1) >>
                     \o [c \in 1..Len(terminals) |-> action_cell(r - 1, terminals[c])]
                     \o [c \in 1..Len(nonterminals) |-> goto_cell(r - 1, nonterminals[c])]]]

read_slr_table(csvfile) ==
    [col_name \in SeqToSet(Tail(csvfile.header)) |->
        \* (the column names of the header are distinct)
        LET k == IndexOf(Tail(csvfile.header), col_name)
        IN  [r \in 1..Len(csvfile.rows) |->
                \* values = row[1:]; values[i] if i < len(values) else ''
                IF k <= Len(csvfile.rows[r]) - 1 THEN csvfile.rows[r][k + 1] ELSE TXT_empty]]

\* read_slr_table with its except branches: {} when the file is missing or cannot be read
try_read_slr_table(csvfile, can_read) ==
    IF can_read THEN read_slr_table(csvfile) ELSE EmptyDict

(***************************************************************************)
(* derv_util.py: read_tuples                                               *)
(***************************************************************************)
\* a lexer token is the triple (lexeme, category, line)
read_tuples_filter(tuples_list) ==
    SelectSeq(tuples_list, LAMBDA token :
        /\ token[2] # "ESPACO"
        /\ token[2] # "QUEBRA_DE_LINHA"
        /\ token[2] # "COMENTARIO"
        /\ token[2] # " ")

\* a conversion that gives the pair (category, lexeme) for every kept token
read_tuples_by_category(tuples_list) ==
    LET kept == read_tuples_filter(tuples_list)
    IN  [token_tuples |-> [k \in 1..Len(kept) |-> << kept[k][2], kept[k][1] >>],
         line_list |-> [k \in 1..Len(kept) |-> kept[k][3]]]

read_tuples(tuples_list) ==
    LET kept == read_tuples_filter(tuples_list)
    IN  [token_tuples |-> [k \in 1..Len(kept) |->
                              IF kept[k][2] \notin {"id", "valor_inteiro", "valor_real", "string"}
                              THEN << kept[k][1], kept[k][1] >>
                              ELSE << kept[k][2], kept[k][1] >>],
         line_list |-> [k \in 1..Len(kept) |-> kept[k][3]]]


(***************************************************************************)
(* main.py: the build as a whole, per iteration order                      *)
(***************************************************************************)
NoFile == [header |-> << >>, rows |-> << >>]
NoTable == [action |-> EmptyDict, goto |-> EmptyDict]

augmented_grammar == augment_grammar(gramatica)
\* main: ff_set = compute_first_follow(gramatica)
first_follow_sets == compute_first_follow(gramatica)

RECURSIVE lr0_iterations(_, _, _, _)
\* at most n iterations of "while i < len(states)", evaluated by halves
lr0_iterations(st, n, grammar, ord) ==
    IF st.i >= Len(st.states) THEN st
    ELSE IF n = 1 THEN lr0_iteration(st, grammar, ord)
    ELSE LET first_half == lr0_iterations(st, n \div 2, grammar, ord)
         IN  IF first_half = first_half
             THEN lr0_iterations(first_half, n - (n \div 2), grammar, ord)
             ELSE first_half

RECURSIVE lr0_loop(_, _, _, _)
\* "while i < len(states)", run in blocks of n, 2n, 4n, ... iterations
lr0_loop(st, n, grammar, ord) ==
    IF st.i < Len(st.states)
    THEN LET block == lr0_iterations(st, n, grammar, ord)
         IN  IF block = block THEN lr0_loop(block, 2 * n, grammar, ord) ELSE block
    ELSE st

compute_lr0_states(grammar, ord) == lr0_loop(lr0_initial(grammar), 1, grammar, ord)

RECURSIVE table_loop(_, _, _, _, _, _, _, _)
\* "for state_num, state in enumerate(states)" for the states first..last (0-based),
\* evaluated by halves
table_loop(tbl, first, last, state_list, trans, grammar, first_follow, ord) ==
    IF first > last THEN tbl
    ELSE IF first = last
    THEN table_state(tbl, first, state_list[first + 1], trans, grammar, first_follow, ord)
    ELSE LET mid == (first + last) \div 2
             first_half == table_loop(tbl, first, mid, state_list, trans, grammar,
                                      first_follow, ord)
         IN  IF first_half = first_half
             THEN table_loop(first_half, mid + 1, last, state_list, trans, grammar,
                             first_follow, ord)
             ELSE first_half

\* build_slr_table(grammar, first_follow) after compute_lr0_states returned lr0: the
\* per-item pass over the states, then the default fill
build_slr_table(lr0, grammar, first_follow, ord) ==
    default_fill(Evaluated(table_loop(NoTable, 0, Len(lr0.states) - 1, lr0.states,
                                      lr0.transitions, grammar, first_follow, ord)))

\* the build under each iteration order: the LR(0) automaton, the table, and the file
\* data/slr_table.csv that the build writes
lr0_asc == Evaluated(compute_lr0_states(augmented_grammar, "asc"))
lr0_desc == Evaluated(compute_lr0_states(augmented_grammar, "desc"))
table_asc == Evaluated(build_slr_table(lr0_asc, augmented_grammar, first_follow_sets, "asc"))
table_desc == Evaluated(build_slr_table(lr0_desc, augmented_grammar, first_follow_sets, "desc"))
csv_asc == Evaluated(save_slr_table(table_asc))
csv_desc == Evaluated(save_slr_table(table_desc))

(***************************************************************************)
(* The file between two runs of the program: main.py does not rebuild a     *)
(* file that exists, so a file that was changed after it was written (here: *)
(* the GOTO cell of the initial state in column SAIDA emptied) is loaded as *)
(* it is.                                                                  *)
(***************************************************************************)
\* the state parse starts in: stack = [ENDMARK, 0]
InitialState == 0
EditedColumn == "SAIDA"

edited_csv(csvfile) ==
    [csvfile EXCEPT !.rows[InitialState + 1][IndexOf(csvfile.header, EditedColumn)] = TXT_empty]

\* derv: slr_dict = read_slr_table(), for the file as saved and for the file as edited
loaded(csvfile) ==
    [saved |-> Evaluated(read_slr_table(csvfile)),
     edited |-> Evaluated(read_slr_table(Evaluated(edited_csv(csvfile))))]
slr_dict_asc == loaded(csv_asc)
slr_dict_desc == loaded(csv_desc)
(***************************************************************************)
(* The inputs of derv: token lists of the lexer                            *)
(***************************************************************************)
MaxLen == 2
StressLen == 2000
LongStatements == 143

TokChimpanzini == << "chimpanzini", "COMANDO DE SAIDA" >>
TokId == << "x", "id" >>
TokSemi == << ";", "FIM_DE_INSTRUCAO" >>
TokPlus == << "+", "OPERADOR_ARITMETICO" >>
TokAssign == << "=", "ATRIBUICAO" >>
TokType == << "tralalero", "TIPO_DE_VARIAVEL" >>
TokInt == << "1", "valor_inteiro" >>
TokBool == << "tripi", "VALOR BOOLEANO" >>
TokInvalid == << "@", "TOKEN_INVALIDO" >>
TokSpace == << " ", "ESPACO" >>
TokTab == << "\t", "TABULACAO" >>
TokNewline == << "\n", "QUEBRA DE LINHA" >>
TokComment == << "saturnita nota", "COMENTARIO" >>

Alphabet == { TokId, TokSemi, TokAssign, TokInvalid, TokSpace }

ShortInputs == UNION { [1..n -> Alphabet] : n \in 0..MaxLen }

InDeclaration == << TokType, TokId, TokAssign, TokInt, TokSemi >>
InOutput == << TokChimpanzini, TokId, TokSemi >>
InOutputNoSemi == << TokChimpanzini, TokId >>
InOutputThenOutput == << TokChimpanzini, TokId, TokChimpanzini, TokId, TokSemi >>
InOutputSum == << TokChimpanzini, TokId, TokPlus, TokId, TokSemi >>
InTwoOutputs == << TokChimpanzini, TokId, TokSemi, TokChimpanzini, TokId, TokSemi >>
InTwoLines == << TokChimpanzini, TokSpace, TokId, TokSemi, TokNewline,
                 TokChimpanzini, TokSpace, TokId, TokSemi >>
InTabbed == << TokTab, TokChimpanzini, TokSpace, TokId, TokSemi >>
InCommented == << TokChimpanzini, TokSpace, TokId, TokSemi, TokSpace, TokComment >>
\* three output commands, the first two followed by a stray ';'
InStrayRepeated == << TokChimpanzini, TokId, TokSemi, TokSemi,
                      TokChimpanzini, TokId, TokSemi, TokSemi,
                      TokChimpanzini, TokId, TokSemi >>
\* a token list is given by a pattern of (lexeme, category) tokens and the length up to
\* which the pattern is repeated
Repeated(pattern, length) == [pattern |-> pattern, length |-> length]
InStressSame == Repeated(<< TokSemi >>, StressLen)
InStressMixed == Repeated(<< TokSemi, TokPlus >>, StressLen)
\* "= tripi" repeated: a list of LongStatements assignment commands
InLongProgram == Repeated(<< TokAssign, TokBool >>, 2 * LongStatements)
NoInput == Repeated(<< >>, 0)

SpecialInputs == { InDeclaration, InOutput, InOutputNoSemi, InOutputThenOutput, InOutputSum,
                   InTwoOutputs, InTwoLines, InTabbed, InCommented, InStrayRepeated }

Inputs == { Repeated(toks, Len(toks)) : toks \in ShortInputs \cup SpecialInputs }
          \cup { InStressSame, InStressMixed, InLongProgram }

\* the lexer's token list: token k is (lexeme, category, line) and stands on line k
TokenList(inp) ==
    [k \in 1..inp.length |->
        LET token == inp.pattern[((k - 1) % Len(inp.pattern)) + 1]
        IN  << token[1], token[2], k >>]
WithLines(toks) == TokenList(Repeated(toks, Len(toks)))

\* for every input: derv's token_tuples, line_list = read_tuples(token_list), and parse's
\* token_tuples + [(ENDMARK, ENDMARK)]
InputData ==
    Evaluated([inp \in Inputs |->
        LET tokens == Evaluated(TokenList(inp))
            tuples == read_tuples(tokens)
        IN  [token_list |-> tokens,
             token_tuples |-> Evaluated(tuples.token_tuples),
             line_list |-> Evaluated(tuples.line_list),
             all_tokens |-> Evaluated(Append(tuples.token_tuples, << ENDMARK, ENDMARK >>))]])

(***************************************************************************)
(* ff_util.py: the file data/first_follow.csv                              *)
(*                                                                         *)
(* A text is a sequence of units.  A unit is one character or a whole       *)
(* symbol name: no name of the grammar holds a quote, a brace, a comma or   *)
(* white space, so strip and split leave a name whole.                      *)
(***************************************************************************)
NameRank == (EPS :> 0) @@ SymbolRank

\* repr(name) of a str without quotes in it
repr(name) == << "'", name, "'" >>

RECURSIVE join(_, _)
\* sep.join(parts)
join(sep, parts) ==
    IF parts = << >> THEN << >>
    ELSE IF Len(parts) = 1 THEN parts[1]
    ELSE parts[1] \o sep \o join(sep, Tail(parts))

\* str(S) of a set of names that is iterated under ord
set_text(S, ord) ==
    IF S = {} THEN << "s", "e", "t", "(", ")" >>
    ELSE LET names == IterSet(S, NameRank, ord)
         IN  << "{" >> \o join(<< ",", " " >>, [k \in 1..Len(names) |-> repr(names[k])])
             \o << "}" >>

\* "for nt, sets in ff_set.items(): writer.writerow(...)": one row per key, in the order
\* of the grammar
write_first_follow(sets, keys, ord) ==
    [fieldnames |-> << "non_terminal", "first", "follow" >>,
     rows |-> [k \in 1..Len(keys) |->
                 [non_terminal |-> keys[k],
                  first |-> set_text(sets[keys[k]].first, ord),
                  follow |-> set_text(sets[keys[k]].follow, ord)]]]

RECURSIVE lstrip(_, _)
lstrip(text, chars) ==
    IF text # << >> /\ Head(text) \in chars THEN lstrip(Tail(text), chars) ELSE text
\* text.strip(chars)
strip(text, chars) == Reverse(lstrip(Reverse(lstrip(text, chars)), chars))
\* the characters that text.strip() removes
WhiteSpace == { " ", "\t", "\n", "\r" }

RECURSIVE split(_, _)
\* text.split(sep)
split(text, sep) ==
    LET at == { k \in 1..(Len(text) - Len(sep) + 1) : SubSeq(text, k, k + Len(sep) - 1) = sep }
    IN  IF at = {} THEN << text >>
        ELSE LET k == CHOOSE x \in at : \A y \in at : x <= y
             IN  << SubSeq(text, 1, k - 1) >> \o split(SubSeq(text, k + Len(sep), Len(text)), sep)

RECURSIVE text_of(_)
\* the str that the units spell
text_of(units) == IF units = << >> THEN "" ELSE Head(units) \o text_of(Tail(units))

\* set(item.strip().strip("'\"") for item in field.strip("{}").split(", ") if item.strip())
\* if field else set()
read_set(field) ==
    IF field = << >> THEN {}
    ELSE { text_of(strip(strip(item, WhiteSpace), { "'", "\"" }))
           : item \in { it \in SeqToSet(split(strip(field, { "{", "}" }), << ",", " " >>)) :
                          strip(it, WhiteSpace) # << >> } }

\* "ff_set = {row["non_terminal"]: {...} for row in reader}"
read_first_follow(csvfile) ==
    [nt \in { csvfile.rows[k].non_terminal : k \in 1..Len(csvfile.rows) } |->
        LET row == csvfile.rows[CHOOSE k \in 1..Len(csvfile.rows) :
                                  /\ csvfile.rows[k].non_terminal = nt
                                  /\ \A j \in (k + 1)..Len(csvfile.rows) :
                                        csvfile.rows[j].non_terminal # nt]
        IN  [first |-> read_set(row.first), follow |-> read_set(row.follow)]]

(***************************************************************************)
(* The grammars handed to compute_first_follow and augment_grammar: the     *)
(* shipped one, and grammars of at most MaxKeys rules over its symbols      *)
(***************************************************************************)
MaxKeys == 3

RulePool == {
    << "SAIDA", << << "chimpanzini", "TERMO", ";" >> >> >>,
    << "COMENTARIO", << << "saturnita", "TERMO" >> >> >>,
    << "COMANDO", << << "SAIDA" >>, << "COMENTARIO" >> >> >>,
    << "ENTRADA", << << "batapim", "OPERADOR", ";" >>, << "TERMO", "OPERADOR" >> >> >>,
    << "OPERADOR", << << EPS >>, << "+" >> >> >>,
    << "TERMO", << << "id" >>, << "VALOR_BOOL" >> >> >>,
    << "VALOR_BOOL", << << "tripi" >>, << "tropa" >> >> >> }

\* every key is declared once, and every nonterminal of a right-hand side is a key
\* (grammar[symbol] and first_sets[symbol] raise KeyError otherwise)
IsClosed(g) ==
    /\ \A j, k \in 1..Len(g) : g[j][1] = g[k][1] => j = k
    /\ \A k \in 1..Len(g) : \A prod \in SeqToSet(g[k][2]) : \A sym \in SeqToSet(prod) :
          sym \in ALL_NONTERMINALS => sym \in KeySet(g)

\* a grammar whose state after "chimpanzini id" has the shift item SAIDA -> chimpanzini id . ;
\* and the complete item SAIDA -> chimpanzini id . with ';' in FOLLOW(SAIDA)
ConflictGrammar ==
    << << "COMANDO", << << "SAIDA", ";" >> >> >>,
       << "SAIDA", << << "chimpanzini", "id", ";" >>, << "chimpanzini", "id" >> >> >> >>

Grammars ==
    { gramatica, ConflictGrammar } \cup
    { g \in UNION { [1..n -> RulePool] : n \in 1..MaxKeys } : IsClosed(g) }

NoGrammar == << >>

STEP_LIMIT == 1000
ERROR_STREAK_LIMIT == 1000

NoResult == [exit |-> "none", success |-> FALSE, arity |-> 0]
NoKey == << >>
None == "<None>"
\* there is no second call
NoCall == [pc |-> "none"]

\* no build has run, no token list was read, parse has not begun
Blank ==
    /\ ff_set = << >>
    /\ states = << >>
    /\ transitions = << >>
    /\ i = 0
    /\ table = NoTable
    /\ state_num = 0
    /\ slr_csv = NoFile
    /\ slr_dict = << >>
    /\ input = NoInput
    /\ lines_popped = 0
    /\ stack = << >>
    /\ tokens_popped = 0
    /\ current_token = None
    /\ current_lexeme = None
    /\ step_count = 0
    /\ error_list = << >>
    /\ last_error_key = NoKey
    /\ error_streak = 0
    /\ all_nodes = << >>
    /\ node_stack = << >>
    /\ root = 0
    /\ result = NoResult

(***************************************************************************)
(* main.py, slr_util.py: building, saving and loading the table, one loop   *)
(* iteration per step                                                      *)
(***************************************************************************)
\* main starts with no file data/slr_table.csv
BuildInit ==
    /\ pc = "main"
    /\ order \in IterOrders
    /\ input_grammar = gramatica
    /\ ff_csv = NoFile
    /\ augmented = NoGrammar
    /\ readable = TRUE
    /\ other_call = NoCall
    /\ edited = FALSE
    /\ Blank

\* main: compute_first_follow(gramatica), augment_grammar(gramatica), and the
\* first lines of build_slr_table / compute_lr0_states (the initial state)
main_build ==
    /\ pc = "main"
    /\ slr_csv = NoFile
    /\ ff_csv = NoFile
    /\ ff_set' = first_follow_sets
    /\ ff_csv' = write_first_follow(first_follow_sets, Keys(input_grammar), order)
    /\ augmented' = augmented_grammar
    /\ LET st == lr0_initial(augmented_grammar)
       IN  /\ states' = st.states
           /\ transitions' = st.transitions
           /\ i' = st.i
    /\ pc' = "compute_lr0_states"
    /\ UNCHANGED << order, input_grammar, readable, other_call, table, state_num, file_vars, derv_vars,
                    lines_popped, tree_vars, parse_vars >>

\* compute_lr0_states: one iteration of "while i < len(states)"
lr0_step ==
    /\ pc = "compute_lr0_states"
    /\ i < Len(states)
    /\ LET st == lr0_iteration([states |-> states, transitions |-> transitions, i |-> i],
                               augmented_grammar, order)
       IN  /\ states' = st.states
           /\ transitions' = st.transitions
           /\ i' = st.i
    /\ UNCHANGED << pc, run_vars, ff_set, table, state_num, file_vars, derv_vars, lines_popped,
                    tree_vars, parse_vars >>

\* compute_lr0_states returns; build_slr_table initialises the table
lr0_return ==
    /\ pc = "compute_lr0_states"
    /\ i >= Len(states)
    /\ table' = NoTable
    /\ state_num' = 0
    /\ pc' = "build_slr_table"
    /\ UNCHANGED << run_vars, ff_set, states, transitions, i, file_vars, derv_vars, lines_popped,
                    tree_vars, parse_vars >>

\* build_slr_table: one iteration of "for state_num, state in enumerate(states)"
table_step ==
    /\ pc = "build_slr_table"
    /\ state_num < Len(states)
    /\ table' = table_state(table, state_num, states[state_num + 1], transitions,
                            augmented_grammar, ff_set, order)
    /\ state_num' = state_num + 1
    /\ UNCHANGED << pc, run_vars, ff_set, states, transitions, i, file_vars, derv_vars, lines_popped,
                    tree_vars, parse_vars >>

\* build_slr_table: the default-fill pass
table_fill ==
    /\ pc = "build_slr_table"
    /\ state_num >= Len(states)
    /\ table' = default_fill(table)
    /\ pc' = "save_slr_table"
    /\ UNCHANGED << run_vars, ff_set, states, transitions, i, state_num, file_vars, derv_vars,
                    lines_popped, tree_vars, parse_vars >>

\* save_slr_table(table)
table_save ==
    /\ pc = "save_slr_table"
    /\ slr_csv' = save_slr_table(table)
    /\ pc' = "saved"
    /\ UNCHANGED << run_vars, build_vars, edited, derv_vars, lines_popped, tree_vars, parse_vars >>

\* the file is changed between the run that wrote it and the run that loads it
edit_file ==
    /\ pc = "saved"
    /\ ~edited
    /\ slr_csv' = edited_csv(slr_csv)
    /\ edited' = TRUE
    /\ UNCHANGED << pc, run_vars, build_vars, derv_vars, lines_popped, tree_vars, parse_vars >>

\* derv: slr_dict = read_slr_table()
derv_read_slr_table ==
    /\ pc = "saved"
    /\ slr_dict' = try_read_slr_table(slr_csv, readable)
    /\ pc' = "loaded"
    /\ UNCHANGED << run_vars, build_vars, file_vars, input, lines_popped,
                    tree_vars, parse_vars >>

BuildNext ==
    \/ main_build
    \/ lr0_step
    \/ lr0_return
    \/ table_step
    \/ table_fill
    \/ table_save
    \/ edit_file
    \/ derv_read_slr_table

BuildSpec == BuildInit /\ [][BuildNext]_vars


(***************************************************************************)
(* derv_util.py: derv, for a file data/slr_table.csv that exists            *)
(***************************************************************************)
Init ==
    /\ pc = "derv"
    /\ order \in IterOrders
    /\ input_grammar = gramatica
    /\ ff_csv = NoFile
    /\ augmented = NoGrammar
    /\ readable \in BOOLEAN
    /\ other_call = NoCall
    /\ edited \in BOOLEAN
    /\ Blank

\* The lists of derv and parse.  input_tokens and line_list only ever lose their first
\* element, so they are kept as the number of elements popped from the lists that
\* read_tuples returned.
token_list == InputData[input].token_list
token_tuples == InputData[input].token_tuples
all_tokens == InputData[input].all_tokens
input_tokens == SubSeq(all_tokens, tokens_popped + 1, Len(all_tokens))
line_list == SubSeq(InputData[input].line_list, lines_popped + 1,
                    Len(InputData[input].line_list))
\* len(input_tokens), input_tokens[0], len(line_list), line_list[0]
input_count == Len(all_tokens) - tokens_popped
input_head == all_tokens[tokens_popped + 1]
line_count == Len(InputData[input].line_list) - lines_popped
line_head == InputData[input].line_list[lines_popped + 1]

\* derv(token_list): token_tuples, line_list = read_tuples(token_list)
derv_read_tuples ==
    /\ pc = "derv"
    /\ input' \in Inputs
    /\ lines_popped' = 0
    /\ pc' = "parse"
    /\ UNCHANGED << run_vars, build_vars, file_vars, slr_dict, tree_vars, parse_vars >>

\* derv: the file is missing or cannot be read, slr_dict = read_slr_table() is {}:
\* "if not slr_dict: return None"
derv_no_table ==
    /\ pc = "parse"
    /\ ~readable
    /\ pc' = "returned"
    /\ UNCHANGED << run_vars, build_vars, file_vars, derv_vars, lines_popped, tree_vars,
                    parse_vars >>

(***************************************************************************)
(* derv_util.py: parse and DerivationTree                                  *)
(***************************************************************************)
\* entries of the parse stack: state ids and grammar symbols
StateEntry(n) == [state |-> n]
SymbolEntry(sym) == [symbol |-> sym]
IsStateEntry(e) == "state" \in DOMAIN e

\* a production list that numbers the productions of the augmented grammar
prods_of_augmented ==
    [k \in 1..Len(ProductionList(augmented_grammar)) |-> ProductionList(augmented_grammar)[k][2]]

\* prods = [prod for prods in gramatica.values() for prod in prods]
prods == [k \in 1..Len(ProductionList(gramatica)) |-> ProductionList(gramatica)[k][2]]

\* "for nt in gramatica: if production in gramatica[nt]": the first such key
lhs_of(production) ==
    LET hits == { k \in 1..Len(gramatica) : production \in SeqToSet(gramatica[k][2]) }
    IN  IF hits = {} THEN None
        ELSE gramatica[CHOOSE k \in hits : \A j \in hits : k <= j][1]

\* a derv that calls parse whatever read_slr_table returned
parse_begin_unguarded ==
    /\ pc = "parse"
    /\ stack' = << SymbolEntry(ENDMARK), StateEntry(InitialState) >>
    \* current_token_info = input_tokens.pop(0)
    /\ tokens_popped' = 1
    /\ current_token' = all_tokens[1][1]
    /\ current_lexeme' = all_tokens[1][2]
    /\ all_nodes' = << >>
    /\ node_stack' = << >>
    /\ root' = 0
    /\ step_count' = 0
    /\ error_list' = << >>
    /\ last_error_key' = NoKey
    /\ error_streak' = 0
    /\ pc' = "loop"
    /\ UNCHANGED << run_vars, build_vars, file_vars, derv_vars, lines_popped, result >>

\* a parse that begins with the initial state alone on the stack
parse_begin_bare ==
    /\ pc = "parse"
    /\ readable
    /\ stack' = << StateEntry(InitialState) >>
    /\ tokens_popped' = 1
    /\ current_token' = all_tokens[1][1]
    /\ current_lexeme' = all_tokens[1][2]
    /\ all_nodes' = << >>
    /\ node_stack' = << >>
    /\ root' = 0
    /\ step_count' = 0
    /\ error_list' = << >>
    /\ last_error_key' = NoKey
    /\ error_streak' = 0
    /\ pc' = "loop"
    /\ UNCHANGED << run_vars, build_vars, file_vars, derv_vars, lines_popped, result >>

\* the beginning of parse, up to "while True"
parse_begin ==
    /\ pc = "parse"
    \* derv: slr_dict = read_slr_table() is not empty
    /\ readable
    /\ stack' = << SymbolEntry(ENDMARK), StateEntry(InitialState) >>
    \* current_token_info = input_tokens.pop(0)
    /\ tokens_popped' = 1
    /\ current_token' = all_tokens[1][1]
    /\ current_lexeme' = all_tokens[1][2]
    /\ all_nodes' = << >>
    /\ node_stack' = << >>
    /\ root' = 0
    /\ step_count' = 0
    /\ error_list' = << >>
    /\ last_error_key' = NoKey
    /\ error_streak' = 0
    /\ pc' = "loop"
    /\ UNCHANGED << run_vars, build_vars, file_vars, derv_vars, lines_popped, result >>

top == stack[Len(stack)].state

\* the slr_dict argument of parse: what derv loaded from the file, which a build under
\* `order` wrote and which was or was not edited since
parse_slr_dict ==
    (IF order = "asc" THEN slr_dict_asc ELSE slr_dict_desc)[IF edited THEN "edited" ELSE "saved"]

\* action = slr_dict.get(current_token, [])[int(top)] if current_token in slr_dict else ''
action_of(dict, token, state) ==
    IF token \in DOMAIN dict THEN dict[token][state + 1] ELSE TXT_empty
action == action_of(parse_slr_dict, current_token, top)

\* a limit test that lets one more step through
step_limit_exceeded_late(count) == count > STEP_LIMIT + 1

\* "if step_count > 1000" after "step_count += 1"
step_limit_exceeded(count) == count > STEP_LIMIT

Return(exit, success, arity) ==
    /\ result' = [exit |-> exit, success |-> success, arity |-> arity]
    /\ pc' = "done"

\* what no loop step changes
loop_frame == << run_vars, build_vars, file_vars, derv_vars >>

\* step_count exceeds the limit: break, and the return after the loop
parse_step_limit ==
    /\ pc = "loop"
    /\ step_count' = step_count + 1
    /\ step_limit_exceeded(step_count')
    /\ Return("step_limit", FALSE, 4)
    /\ UNCHANGED << loop_frame, lines_popped, tree_vars, stack, tokens_popped, current_token,
                    current_lexeme, error_list, last_error_key, error_streak >>

\* "if not action": return False, stack, derivation_tree
parse_no_action ==
    /\ pc = "loop"
    /\ step_count' = step_count + 1
    /\ ~step_limit_exceeded(step_count')
    /\ action = TXT_empty
    /\ Return("no_action", FALSE, 3)
    /\ UNCHANGED << loop_frame, lines_popped, tree_vars, stack, tokens_popped, current_token,
                    current_lexeme, error_list, last_error_key, error_streak >>

SyntaxError(token, line) == [kind |-> "syntax", token |-> token, line |-> line]
LoopError(state, token) == [kind |-> "loop", state |-> state, token |-> token]

\* a streak test that lets one more repetition through
streak_limit_passed(streak) == streak > ERROR_STREAK_LIMIT

\* "if error_streak >= ERROR_STREAK_LIMIT"
streak_limit_reached(streak) == streak >= ERROR_STREAK_LIMIT

\* an error step that also unwinds the stack and the node stack to the beginning
parse_error_unwinding ==
    /\ pc = "loop"
    /\ step_count' = step_count + 1
    /\ ~step_limit_exceeded(step_count')
    /\ startswith(action, "e")
    /\ line_count > 0
    /\ LET next_info == IF input_count > 0 THEN input_head ELSE << ENDMARK, ENDMARK >>
       IN  /\ tokens_popped' = IF input_count > 0 THEN tokens_popped + 1 ELSE tokens_popped
           /\ current_token' = next_info[1]
           /\ current_lexeme' = next_info[1]
           /\ last_error_key' = << top, next_info[1] >>
           /\ error_streak' = 1
           /\ error_list' = Append(error_list, SyntaxError(current_token, line_head))
           /\ lines_popped' = IF line_count > 1 THEN lines_popped + 1 ELSE lines_popped
    /\ stack' = << SymbolEntry(ENDMARK), StateEntry(InitialState) >>
    /\ node_stack' = << >>
    /\ UNCHANGED << loop_frame, pc, result, all_nodes, root >>

\* action.startswith("e")
parse_error ==
    /\ pc = "loop"
    /\ step_count' = step_count + 1
    /\ ~step_limit_exceeded(step_count')
    /\ startswith(action, "e")
    /\ IF line_count = 0
       THEN \* line_list[0] raises IndexError
            /\ Return("IndexError", FALSE, 0)
            /\ UNCHANGED << lines_popped, stack, tokens_popped, current_token, current_lexeme,
                            error_list, last_error_key, error_streak >>
       ELSE LET \* input_tokens.pop(0) if input_tokens else (ENDMARK, ENDMARK)
                next_info == IF input_count > 0 THEN input_head ELSE << ENDMARK, ENDMARK >>
                next_token == next_info[1]
                error_key == << top, next_token >>
                streak == IF error_key = last_error_key THEN error_streak + 1 ELSE 1
                errors == Append(error_list, SyntaxError(current_token, line_head))
            IN  /\ tokens_popped' = IF input_count > 0 THEN tokens_popped + 1
                                    ELSE tokens_popped
                /\ current_token' = next_token
                \* current_token is a str by now, so the lexeme is the token name
                /\ current_lexeme' = next_token
                /\ last_error_key' = error_key
                /\ error_streak' = streak
                /\ IF streak_limit_reached(streak)
                   THEN /\ error_list' = Append(errors, LoopError(top, next_token))
                        /\ Return("error_loop", FALSE, 4)
                        /\ UNCHANGED lines_popped
                   ELSE /\ error_list' = errors
                        \* if len(line_list) > 1: line_list.pop(0)
                        /\ lines_popped' = IF line_count > 1 THEN lines_popped + 1
                                           ELSE lines_popped
                        /\ UNCHANGED << pc, result >>
                /\ UNCHANGED stack
    /\ UNCHANGED << loop_frame, tree_vars >>

\* DerivationNode.is_terminal
is_terminal(symbol) == symbol \notin ALL_NONTERMINALS

\* a node that is labelled with its lexeme
DerivationNode_by_lexeme(symbol, lexeme, state, line) ==
    [symbol |-> lexeme, lexeme |-> lexeme, state |-> state, line |-> line,
     parent |-> 0, children |-> << >>]

\* DerivationNode(symbol, lexeme, state, line=line)
DerivationNode(symbol, lexeme, state, line) ==
    [symbol |-> symbol, lexeme |-> lexeme, state |-> state, line |-> line,
     parent |-> 0, children |-> << >>]

\* "current_line = int(line_list[0]) if line_list and line_list[0] else 0"
current_line == IF line_count > 0 /\ line_head # 0 THEN line_head ELSE 0
\* the lexeme handed to shift_terminal
shift_lexeme(token, lexeme) == lexeme

\* action.startswith("s")
parse_shift ==
    /\ pc = "loop"
    /\ step_count' = step_count + 1
    /\ ~step_limit_exceeded(step_count')
    /\ startswith(action, "s")
    /\ LET next_state == int(Tail(action))
       IN  /\ stack' = stack \o << SymbolEntry(current_token), StateEntry(next_state) >>
           \* DerivationTree.shift_terminal
           /\ all_nodes' = Append(all_nodes,
                                  DerivationNode(current_token,
                                                 shift_lexeme(current_token, current_lexeme),
                                                 next_state, current_line))
           /\ node_stack' = Append(node_stack, Len(all_nodes) + 1)
    /\ IF input_count > 0
       THEN \* current_token_info = input_tokens.pop(0)
            /\ tokens_popped' = tokens_popped + 1
            /\ current_token' = input_head[1]
            /\ current_lexeme' = input_head[2]
       ELSE UNCHANGED << tokens_popped, current_token, current_lexeme >>
    \* if len(line_list) > 0: line_list.pop(0)
    /\ lines_popped' = IF line_count > 0 THEN lines_popped + 1 ELSE lines_popped
    /\ UNCHANGED << loop_frame, pc, result, root, error_list, last_error_key, error_streak >>

\* "for _ in range(num_symbols): if len(stack) > 2: stack.pop()"
pop_count(stack_len, num_symbols) ==
    IF stack_len - 2 < num_symbols THEN (IF stack_len > 2 THEN stack_len - 2 ELSE 0)
    ELSE num_symbols
\* a reduce_production that takes every node of the node stack as a child
child_count_all(rhs, node_count) == node_count

\* reduce_production: how many nodes leave the node stack
child_count(rhs, node_count) ==
    IF rhs = << EPS >> THEN 0
    ELSE IF node_count < Len(rhs) THEN node_count ELSE Len(rhs)

\* the stack after the pops and "stack.append(nt_prod)"
reduced_stack(stk, production) ==
    Append(SubSeq(stk, 1, Len(stk) - pop_count(Len(stk), Len(production) * 2)),
           SymbolEntry(lhs_of(production)))
\* a GOTO lookup by the state that was on top before the pop
goto_state_before_pop(dict, stk, production) ==
    LET nt_prod == lhs_of(production)
    IN  IF nt_prod \in DOMAIN dict THEN dict[nt_prod][stk[Len(stk)].state + 1]
        ELSE TXT_empty

\* goto_state = slr_dict.get(nt_prod, [])[int(stack[-2])] if nt_prod in slr_dict else ''
goto_state(dict, stk, production) ==
    LET stk2 == reduced_stack(stk, production)
        nt_prod == lhs_of(production)
    IN  IF nt_prod \in DOMAIN dict THEN dict[nt_prod][stk2[Len(stk2) - 1].state + 1]
        ELSE TXT_empty

\* a lookup that takes the production after the one the cell names
reduce_production_after(a) == prods[((int(Tail(a)) + 1) % Len(prods)) + 1]

\* production = prods[num_prod] for the cell "r<num_prod>"
reduce_production_of(a) == prods[int(Tail(a)) + 1]

\* a reduce_production that pops the children but does not connect them to the new node
reduce_production_unlinked(nodes, nstack, old_root, nt_prod, production, new_state) ==
    LET k == child_count(production, Len(nstack))
        parent_id == Len(nodes) + 1
    IN  [all_nodes |-> Append(nodes, DerivationNode(nt_prod, None, new_state, -1)),
         node_stack |-> Append(SubSeq(nstack, 1, Len(nstack) - k), parent_id),
         root |-> IF nt_prod = "PROGRAMA" THEN parent_id ELSE old_root]

\* a reduce_production that records the new node twice
reduce_production_twice(nodes, nstack, old_root, nt_prod, production, new_state) ==
    LET k == child_count(production, Len(nstack))
        children_nodes == SubSeq(nstack, Len(nstack) - k + 1, Len(nstack))
        parent_id == Len(nodes) + 1
        parent_node == [DerivationNode(nt_prod, None, new_state, -1)
                           EXCEPT !.children = children_nodes]
        adopted == [n \in 1..Len(nodes) |->
                       IF n \in SeqToSet(children_nodes)
                       THEN [nodes[n] EXCEPT !.parent = parent_id]
                       ELSE nodes[n]]
    IN  [all_nodes |-> adopted \o << parent_node, parent_node >>,
         node_stack |-> Append(SubSeq(nstack, 1, Len(nstack) - k), parent_id),
         root |-> IF nt_prod = "PROGRAMA" THEN parent_id ELSE old_root]

\* DerivationTree.reduce_production(nt_prod, production, new_state): the nodes, the node
\* stack and the root after the call
reduce_production(nodes, nstack, old_root, nt_prod, production, new_state) ==
    LET k == child_count(production, Len(nstack))
        children_nodes == SubSeq(nstack, Len(nstack) - k + 1, Len(nstack))
        parent_id == Len(nodes) + 1
        parent_node == [DerivationNode(nt_prod, None, new_state, -1)
                           EXCEPT !.children = children_nodes]
        adopted == [n \in 1..Len(nodes) |->
                       IF n \in SeqToSet(children_nodes)
                       THEN [nodes[n] EXCEPT !.parent = parent_id]
                       ELSE nodes[n]]
        nodes2 == Append(adopted, parent_node)
        stack2 == Append(SubSeq(nstack, 1, Len(nstack) - k), parent_id)
    IN  [all_nodes |-> nodes2,
         node_stack |-> stack2,
         root |-> IF \/ nt_prod = "PROGRAMA"
                     \/ (Len(stack2) = 1 /\ \A n \in SeqToSet(stack2) : nodes2[n].parent = 0)
                  THEN parent_id ELSE old_root]

\* the reduce by production whose GOTO cell is gs: "stack.append(goto_state)" and the tree
reduce_goto(production, gs) ==
    /\ gs # TXT_empty
    /\ stack' = Append(reduced_stack(stack, production), StateEntry(int(gs)))
    /\ LET tree == reduce_production(all_nodes, node_stack, root, lhs_of(production),
                                     production, int(gs))
       IN  /\ all_nodes' = tree.all_nodes
           /\ node_stack' = tree.node_stack
           /\ root' = tree.root

\* action.startswith("r") with a GOTO entry
parse_reduce ==
    /\ pc = "loop"
    /\ step_count' = step_count + 1
    /\ ~step_limit_exceeded(step_count')
    /\ startswith(action, "r")
    /\ reduce_goto(reduce_production_of(action),
                   goto_state(parse_slr_dict, stack, reduce_production_of(action)))
    /\ UNCHANGED << loop_frame, pc, result, lines_popped, tokens_popped, current_token,
                    current_lexeme, error_list, last_error_key, error_streak >>

\* a reduce without a GOTO entry that goes on with the initial state and a node for the lhs
parse_reduce_guessing ==
    /\ pc = "loop"
    /\ step_count' = step_count + 1
    /\ step_count' <= STEP_LIMIT
    /\ startswith(action, "r")
    /\ LET production == reduce_production_of(action)
       IN  /\ goto_state(parse_slr_dict, stack, production) = TXT_empty
           /\ stack' = Append(reduced_stack(stack, production), StateEntry(InitialState))
           /\ all_nodes' = Append(all_nodes,
                                  DerivationNode(lhs_of(production), None, InitialState, -1))
           /\ node_stack' = Append(node_stack, Len(all_nodes) + 1)
    /\ UNCHANGED << loop_frame, pc, result, root, lines_popped, tokens_popped, current_token,
                    current_lexeme, error_list, last_error_key, error_streak >>

\* action.startswith("r") without a GOTO entry: return False, stack, derivation_tree, error_list
parse_reduce_no_goto ==
    /\ pc = "loop"
    /\ step_count' = step_count + 1
    /\ ~step_limit_exceeded(step_count')
    /\ startswith(action, "r")
    /\ LET production == reduce_production_of(action)
       IN  /\ goto_state(parse_slr_dict, stack, production) = TXT_empty
           /\ stack' = reduced_stack(stack, production)
    /\ Return("no_goto", FALSE, 4)
    /\ UNCHANGED << loop_frame, tree_vars, lines_popped, tokens_popped, current_token,
                    current_lexeme, error_list, last_error_key, error_streak >>

\* action == "acc"
parse_accept ==
    /\ pc = "loop"
    /\ step_count' = step_count + 1
    /\ ~step_limit_exceeded(step_count')
    /\ action = TXT_acc
    /\ Return("accept", TRUE, 4)
    /\ UNCHANGED << loop_frame, tree_vars, lines_popped, stack, tokens_popped, current_token,
                    current_lexeme, error_list, last_error_key, error_streak >>

Next ==
    \/ derv_read_tuples
    \/ derv_no_table
    \/ parse_begin
    \/ parse_step_limit
    \/ parse_no_action
    \/ parse_error
    \/ parse_shift
    \/ parse_reduce
    \/ parse_reduce_no_goto
    \/ parse_accept

Spec == Init /\ [][Next]_vars


(***************************************************************************)
(* ff_util.py and slr_util.py on their own: compute_first_follow and        *)
(* augment_grammar called with a grammar                                   *)
(***************************************************************************)
GrammarInit ==
    /\ pc = "grammar"
    /\ order \in IterOrders
    /\ input_grammar \in Grammars
    /\ ff_csv = NoFile
    /\ augmented = NoGrammar
    /\ readable = TRUE
    /\ other_call = NoCall
    /\ edited = FALSE
    /\ Blank

\* what the calls on a grammar leave alone
grammar_frame == << pc, order, readable, other_call, i, state_num, file_vars, derv_vars,
                    lines_popped, tree_vars, parse_vars >>
build_frame == << states, transitions, table >>

\* compute_first_follow(grammar) with no file data/first_follow.csv: the sets are
\* computed, written to the file and returned
first_follow_compute ==
    /\ pc = "grammar"
    /\ ff_csv = NoFile
    /\ ff_set' = compute_first_follow(input_grammar)
    /\ ff_csv' = write_first_follow(ff_set', Keys(input_grammar), order)
    /\ UNCHANGED << grammar_frame, build_frame, input_grammar, augmented >>

\* compute_first_follow(grammar) with the file there: the sets are read from it
first_follow_read ==
    /\ pc = "grammar"
    /\ ff_csv # NoFile
    /\ ff_set' = read_first_follow(ff_csv)
    /\ UNCHANGED << grammar_frame, build_frame, input_grammar, ff_csv, augmented >>

\* augmented = augment_grammar(input_grammar)
augment_call ==
    /\ pc = "grammar"
    /\ augmented' = augment_grammar(input_grammar)
    /\ UNCHANGED << grammar_frame, build_frame, input_grammar, ff_csv, ff_set >>

\* the table that build_slr_table(grammar, first_follow) builds from the automaton lr0
built_table(lr0, grammar, first_follow, ord) ==
    [states |-> lr0.states, transitions |-> lr0.transitions,
     table |-> build_slr_table(lr0, grammar, first_follow, ord)]

\* build_slr_table(augmented, ff_set), with the sets that compute_first_follow computed
build_call ==
    /\ pc = "grammar"
    /\ augmented # NoGrammar
    /\ ff_csv # NoFile
    /\ ff_set = compute_first_follow(input_grammar)
    /\ table = NoTable
    /\ LET built == built_table(compute_lr0_states(augmented, order), augmented, ff_set, order)
       IN  /\ states' = built.states
           /\ transitions' = built.transitions
           /\ table' = built.table
    /\ UNCHANGED << grammar_frame, input_grammar, ff_csv, ff_set, augmented >>

GrammarNext ==
    \/ first_follow_compute
    \/ first_follow_read
    \/ augment_call
    \/ build_call

GrammarSpec == GrammarInit /\ [][GrammarNext]_vars
(***************************************************************************)
(* derv_util.py: parse as a function of the locals of one call               *)
(***************************************************************************)
\* the locals of a call of derv that has not begun
NewCall ==
    [pc |-> "derv", input |-> NoInput, lines_popped |-> 0, stack |-> << >>,
     tokens_popped |-> 0, current_token |-> None, current_lexeme |-> None, step_count |-> 0,
     error_list |-> << >>, last_error_key |-> NoKey, error_streak |-> 0,
     all_nodes |-> << >>, node_stack |-> << >>, root |-> 0, result |-> NoResult]

\* parse(token_tuples, line_list, slr_dict) for the token list inp, up to "while True"
parse_locals(inp) ==
    [NewCall EXCEPT !.pc = "loop",
                    !.input = inp,
                    !.stack = << SymbolEntry(ENDMARK), StateEntry(InitialState) >>,
                    !.tokens_popped = 1,
                    !.current_token = InputData[inp].all_tokens[1][1],
                    !.current_lexeme = InputData[inp].all_tokens[1][2]]

\* "return ..." and "break" followed by the return after the loop
returned(c, exit, success, arity) ==
    [c EXCEPT !.pc = "done",
              !.result = [exit |-> exit, success |-> success, arity |-> arity]]

\* the branch action.startswith("e") for the lists data and the state tp on the stack
error_pass(c, data, tp) ==
    LET in_count == Len(data.all_tokens) - c.tokens_popped
        ln_count == Len(data.line_list) - c.lines_popped
    IN  IF ln_count = 0
        THEN returned(c, "IndexError", FALSE, 0)
        ELSE LET next_info == IF in_count > 0 THEN data.all_tokens[c.tokens_popped + 1]
                              ELSE << ENDMARK, ENDMARK >>
                 next_token == next_info[1]
                 error_key == << tp, next_token >>
                 streak == IF error_key = c.last_error_key THEN c.error_streak + 1 ELSE 1
                 errors == Append(c.error_list,
                                  SyntaxError(c.current_token,
                                              data.line_list[c.lines_popped + 1]))
                 skipped == [c EXCEPT !.tokens_popped = IF in_count > 0 THEN @ + 1 ELSE @,
                                      !.current_token = next_token,
                                      !.current_lexeme = next_token,
                                      !.last_error_key = error_key,
                                      !.error_streak = streak]
             IN  IF streak_limit_reached(streak)
                 THEN returned([skipped EXCEPT
                                   !.error_list = Append(errors, LoopError(tp, next_token))],
                               "error_loop", FALSE, 4)
                 ELSE [skipped EXCEPT !.error_list = errors,
                                      !.lines_popped = IF ln_count > 1 THEN @ + 1 ELSE @]

\* the branch action.startswith("s")
shift_pass(c, data, act) ==
    LET next_state == int(Tail(act))
        in_count == Len(data.all_tokens) - c.tokens_popped
        ln_count == Len(data.line_list) - c.lines_popped
        line == IF ln_count > 0 /\ data.line_list[c.lines_popped + 1] # 0
                THEN data.line_list[c.lines_popped + 1] ELSE 0
        shifted ==
            [c EXCEPT !.stack = @ \o << SymbolEntry(c.current_token), StateEntry(next_state) >>,
                      !.all_nodes = Append(@, DerivationNode(c.current_token,
                                                             shift_lexeme(c.current_token,
                                                                          c.current_lexeme),
                                                             next_state, line)),
                      !.node_stack = Append(@, Len(c.all_nodes) + 1),
                      !.lines_popped = IF ln_count > 0 THEN @ + 1 ELSE @]
    IN  IF in_count > 0
        THEN [shifted EXCEPT !.tokens_popped = @ + 1,
                             !.current_token = data.all_tokens[c.tokens_popped + 1][1],
                             !.current_lexeme = data.all_tokens[c.tokens_popped + 1][2]]
        ELSE shifted

\* the branch action.startswith("r")
reduce_pass(c, dict, act) ==
    LET production == reduce_production_of(act)
        gs == goto_state(dict, c.stack, production)
    IN  IF gs # TXT_empty
        THEN LET tree == reduce_production(c.all_nodes, c.node_stack, c.root,
                                           lhs_of(production), production, int(gs))
             IN  [c EXCEPT !.stack = Append(reduced_stack(c.stack, production),
                                            StateEntry(int(gs))),
                           !.all_nodes = tree.all_nodes,
                           !.node_stack = tree.node_stack,
                           !.root = tree.root]
        ELSE returned([c EXCEPT !.stack = reduced_stack(c.stack, production)],
                      "no_goto", FALSE, 4)

\* one pass of "while True" for the locals c and the table dict
loop_pass(c, dict) ==
    IF c.pc # "loop" THEN c
    ELSE LET counted == [c EXCEPT !.step_count = @ + 1]
             tp == c.stack[Len(c.stack)].state
             act == action_of(dict, c.current_token, tp)
         IN  IF step_limit_exceeded(counted.step_count)
             THEN returned(counted, "step_limit", FALSE, 4)
             ELSE IF act = TXT_empty THEN returned(counted, "no_action", FALSE, 3)
             ELSE IF startswith(act, "e") THEN error_pass(counted, InputData[c.input], tp)
             ELSE IF startswith(act, "s") THEN shift_pass(counted, InputData[c.input], act)
             ELSE IF startswith(act, "r") THEN reduce_pass(counted, dict, act)
             ELSE IF act = TXT_acc THEN returned(counted, "accept", TRUE, 4)
             ELSE counted

RECURSIVE loop_passes(_, _, _)
\* n passes of the loop
loop_passes(c, dict, n) ==
    IF n = 0 \/ c.pc # "loop" THEN c
    ELSE IF n = 1 THEN loop_pass(c, dict)
    ELSE loop_passes(Evaluated(loop_passes(c, dict, n \div 2)), dict, n - (n \div 2))

\* what parse returns: success and the arity of the tuple, the stack, the tree, the errors
Outcome(c) ==
    [result |-> c.result, stack |-> c.stack, all_nodes |-> c.all_nodes,
     node_stack |-> c.node_stack, root |-> c.root, error_list |-> c.error_list]

\* the table that a build under ord wrote and derv loaded, edited or not
slr_dict_of(ord, ed) ==
    (IF ord = "asc" THEN slr_dict_asc ELSE slr_dict_desc)[IF ed THEN "edited" ELSE "saved"]

(***************************************************************************)
(* Two calls of derv on one table, run as threads                          *)
(***************************************************************************)
\* the token lists of the two calls, and the ones that a call may have while the other
\* call has the long program
TwoInputs ==
    { Repeated(toks, Len(toks)) : toks \in { InOutput, InOutputThenOutput, InTabbed } }
    \cup { InLongProgram }
LongPartners == { NoInput, Repeated(InTabbed, Len(InTabbed)) }

\* parse run from its first to its last pass with nothing in between
AloneOutcome ==
    Evaluated([ord \in IterOrders |-> [ed \in BOOLEAN |-> [inp \in TwoInputs |->
        Evaluated(Outcome(loop_passes(parse_locals(inp), slr_dict_of(ord, ed),
                                      STEP_LIMIT + 1)))]]])

TwoInit ==
    /\ pc = "derv"
    /\ order \in IterOrders
    /\ input_grammar = gramatica
    /\ ff_csv = NoFile
    /\ augmented = NoGrammar
    /\ readable \in BOOLEAN
    /\ edited \in BOOLEAN
    /\ other_call = NewCall
    /\ Blank

\* the locals of the running call
running ==
    [pc |-> pc, input |-> input, lines_popped |-> lines_popped, stack |-> stack,
     tokens_popped |-> tokens_popped, current_token |-> current_token,
     current_lexeme |-> current_lexeme, step_count |-> step_count,
     error_list |-> error_list, last_error_key |-> last_error_key,
     error_streak |-> error_streak, all_nodes |-> all_nodes, node_stack |-> node_stack,
     root |-> root, result |-> result]

\* what both calls see: the files, the grammar, the table
shared_vars == << order, input_grammar, ff_csv, augmented, readable, build_vars, file_vars,
                  slr_dict >>

\* a switch after which the running call goes on with the line_list of the suspended one
switch_sharing_lines ==
    /\ other_call # NoCall
    /\ other_call' = running
    /\ pc' = other_call.pc
    /\ input' = other_call.input
    /\ stack' = other_call.stack
    /\ tokens_popped' = other_call.tokens_popped
    /\ current_token' = other_call.current_token
    /\ current_lexeme' = other_call.current_lexeme
    /\ step_count' = other_call.step_count
    /\ error_list' = other_call.error_list
    /\ last_error_key' = other_call.last_error_key
    /\ error_streak' = other_call.error_streak
    /\ all_nodes' = other_call.all_nodes
    /\ node_stack' = other_call.node_stack
    /\ root' = other_call.root
    /\ result' = other_call.result
    /\ UNCHANGED << shared_vars, lines_popped >>

\* the interpreter suspends the running call between two steps and resumes the other one:
\* every local of derv and parse, and the lists and the tree that only they refer to,
\* belongs to its call
switch ==
    /\ other_call # NoCall
    /\ other_call' = running
    /\ pc' = other_call.pc
    /\ input' = other_call.input
    /\ lines_popped' = other_call.lines_popped
    /\ stack' = other_call.stack
    /\ tokens_popped' = other_call.tokens_popped
    /\ current_token' = other_call.current_token
    /\ current_lexeme' = other_call.current_lexeme
    /\ step_count' = other_call.step_count
    /\ error_list' = other_call.error_list
    /\ last_error_key' = other_call.last_error_key
    /\ error_streak' = other_call.error_streak
    /\ all_nodes' = other_call.all_nodes
    /\ node_stack' = other_call.node_stack
    /\ root' = other_call.root
    /\ result' = other_call.result
    /\ UNCHANGED shared_vars

\* derv(token_list) for a token list of TwoInputs
two_read_tuples ==
    /\ derv_read_tuples
    /\ input' \in TwoInputs
    /\ input' = InLongProgram => other_call.input \in LongPartners
    /\ other_call.input = InLongProgram => input' \in LongPartners

TwoNext ==
    \/ two_read_tuples
    \/ derv_no_table
    \/ parse_begin
    \/ parse_step_limit
    \/ parse_no_action
    \/ parse_error
    \/ parse_shift
    \/ parse_reduce
    \/ parse_reduce_no_goto
    \/ parse_accept
    \/ switch

TwoSpec == TwoInit /\ [][TwoNext]_vars

(***************************************************************************)
(* slr_util.py: compute_lr0_states(grammar) on any grammar, step by step    *)
(***************************************************************************)
Lr0Init ==
    /\ pc = "augment_grammar"
    /\ order \in IterOrders
    /\ input_grammar \in Grammars
    /\ ff_csv = NoFile
    /\ augmented = NoGrammar
    /\ readable = TRUE
    /\ other_call = NoCall
    /\ edited = FALSE
    /\ Blank

\* what compute_lr0_states leaves alone
lr0_frame == << order, input_grammar, readable, other_call, ff_csv, ff_set, table, state_num,
                file_vars, derv_vars, lines_popped, tree_vars, parse_vars >>

\* augmented = augment_grammar(grammar); compute_lr0_states(augmented) up to "i = 0"
worklist_begin ==
    /\ pc = "augment_grammar"
    /\ augmented' = augment_grammar(input_grammar)
    /\ LET st == lr0_initial(augmented')
       IN  /\ states' = st.states
           /\ transitions' = st.transitions
           /\ i' = st.i
    /\ pc' = "while"
    /\ UNCHANGED lr0_frame

\* an iteration of the worklist loop whose index starts again at 0 after the last state
worklist_step_wrapping ==
    /\ pc = "while"
    /\ i < Len(states)
    /\ LET st == lr0_iteration([states |-> states, transitions |-> transitions, i |-> i],
                               augmented, order)
       IN  /\ states' = st.states
           /\ transitions' = st.transitions
           /\ i' = st.i % Len(st.states)
    /\ UNCHANGED << pc, augmented, lr0_frame >>

\* one iteration of "while i < len(states)"
worklist_step ==
    /\ pc = "while"
    /\ i < Len(states)
    /\ LET st == lr0_iteration([states |-> states, transitions |-> transitions, i |-> i],
                               augmented, order)
       IN  /\ states' = st.states
           /\ transitions' = st.transitions
           /\ i' = st.i
    /\ UNCHANGED << pc, augmented, lr0_frame >>

\* "while i < len(states)" ends: return states, transitions
worklist_return ==
    /\ pc = "while"
    /\ i >= Len(states)
    /\ pc' = "return"
    /\ UNCHANGED << augmented, states, transitions, i, lr0_frame >>

Lr0Next ==
    \/ worklist_begin
    \/ worklist_step
    \/ worklist_return

\* the control of compute_lr0_states: the call reaches the loop, an iteration reaches its
\* "i += 1", the loop test fails and the function returns
worklist_enter == pc = "augment_grammar" /\ pc' = "while"
worklist_advance == pc = "while" /\ i < Len(states) /\ i' = i + 1
worklist_leave == pc = "while" /\ i >= Len(states) /\ pc' = "return"

\* the function is sequential code: a statement that can run does run
Lr0Spec ==
    /\ Lr0Init /\ [][Lr0Next]_vars
    /\ WF_pc(worklist_enter) /\ WF_i(worklist_advance) /\ WF_pc(worklist_leave)

(***************************************************************************)
(* ff_util.py: compute_first(prod_list, grammar), call by call             *)
(***************************************************************************)
\* the depth of calls at which the interpreter raises RecursionError (scaled down)
RecursionLimit == 30

\* a nonterminal other than EXPRESSAO that is directly left-recursive
LeftRecursiveGrammar ==
    << << "TERMO", << << "TERMO", "+", "id" >>, << "id" >> >> >> >>

\* two nonterminals that are left-recursive through each other
MutualRecursiveGrammar ==
    << << "ENTRADA", << << "TERMO", ";" >> >> >>,
       << "TERMO", << << "ENTRADA", "+" >>, << "id" >> >> >> >>

\* EXPRESSAO directly left-recursive, as in the shipped grammar
ExpressaoGrammar ==
    << << "EXPRESSAO", << << "EXPRESSAO", "+", "TERMO" >>, << "TERMO" >> >> >>,
       << "TERMO", << << "id" >> >> >> >>

FirstGrammars ==
    Grammars \cup { LeftRecursiveGrammar, MutualRecursiveGrammar, ExpressaoGrammar }

FirstInit ==
    /\ pc = "compute_first"
    /\ order \in IterOrders
    /\ input_grammar \in FirstGrammars
    /\ ff_csv = NoFile
    /\ augmented = NoGrammar
    /\ readable = TRUE
    /\ other_call = NoCall
    /\ edited = FALSE
    /\ Blank

\* what compute_first leaves alone
first_frame == << run_vars, build_vars, file_vars, derv_vars, lines_popped, tree_vars,
                  tokens_popped, current_token, current_lexeme, step_count, error_list,
                  last_error_key, error_streak >>

\* the locals of one call: the productions, the position of "for prod in prod_list" and
\* result_set
first_locals(prod_list) == [prod_list |-> prod_list, k |-> 1, result_set |-> {}]

\* the call on top of the call stack, and the production its loop is at
first_top == stack[Len(stack)]
first_prod == first_top.prod_list[first_top.k]
first_in_loop == pc = "for" /\ first_top.k <= Len(first_top.prod_list)
first_is_call ==
    /\ first_prod[1] \notin ALL_TERMINALS
    /\ first_prod[1] # EPS
    /\ first_prod[1] # "EXPRESSAO"
    /\ first_prod[1] \in ALL_NONTERMINALS

\* the loop of the top call goes on to the next production, with added in result_set
first_continue(stk, added) ==
    [stk EXCEPT ![Len(stk)] = [@ EXCEPT !.k = @ + 1, !.result_set = @ \cup added]]

\* compute_first(grammar[non_terminal], grammar) is called for a nonterminal of the grammar
first_call ==
    /\ pc = "compute_first"
    /\ \E non_terminal \in KeySet(input_grammar) :
          stack' = << first_locals(Lookup(input_grammar, non_terminal)) >>
    /\ pc' = "for"
    /\ UNCHANGED << first_frame, result >>

\* "for prod in prod_list": a production that starts with a terminal, with EPS, with
\* EXPRESSAO or with something else that is no nonterminal
first_symbol ==
    /\ first_in_loop
    /\ ~first_is_call
    /\ stack' = first_continue(stack,
                    IF first_prod[1] \in ALL_TERMINALS THEN { first_prod[1] }
                    ELSE IF first_prod[1] = EPS THEN { EPS }
                    ELSE {})
    /\ UNCHANGED << pc, first_frame, result >>

\* "for prod in prod_list": a production that starts with a nonterminal;
\* compute_first(grammar[prod[0]], grammar) is called
first_recurse ==
    /\ first_in_loop
    /\ first_is_call
    /\ Len(stack) < RecursionLimit
    /\ stack' = Append(stack, first_locals(Lookup(input_grammar, first_prod[1])))
    /\ UNCHANGED << pc, first_frame, result >>

\* the call is one call too deep: RecursionError
first_overflow ==
    /\ first_in_loop
    /\ first_is_call
    /\ Len(stack) >= RecursionLimit
    /\ pc' = "RecursionError"
    /\ UNCHANGED << stack, first_frame, result >>

\* "return result_set" of a call made by compute_first: result_set.update(...)
first_return ==
    /\ pc = "for"
    /\ first_top.k > Len(first_top.prod_list)
    /\ Len(stack) > 1
    /\ stack' = first_continue(SubSeq(stack, 1, Len(stack) - 1), first_top.result_set)
    /\ UNCHANGED << pc, first_frame, result >>

\* "return result_set" of the outermost call
first_done ==
    /\ pc = "for"
    /\ first_top.k > Len(first_top.prod_list)
    /\ Len(stack) = 1
    /\ result' = first_top.result_set
    /\ stack' = << >>
    /\ pc' = "return"
    /\ UNCHANGED first_frame

FirstNext ==
    \/ first_call
    \/ first_symbol
    \/ first_recurse
    \/ first_overflow
    \/ first_return
    \/ first_done

\* the function is sequential code: a statement that can run does run
FirstSpec == FirstInit /\ [][FirstNext]_vars /\ WF_vars(FirstNext)

(***************************************************************************)
(* Sentences of the grammar and the leaves of the derivation tree           *)
(***************************************************************************)
CommandLen == 6

\* the terminal names of a list of (terminal name, lexeme) pairs
TokenNames(tuples) == [k \in 1..Len(tuples) |-> tuples[k][1]]

RECURSIVE DerivesSeq(_, _)
\* the symbols derive exactly the terminal names toks, by the productions of gramatica.
\* No production of gramatica is empty, so every symbol derives at least one terminal.
DerivesSeq(symbols, toks) ==
    IF symbols = << >> THEN toks = << >>
    ELSE IF Len(toks) < Len(symbols) THEN FALSE
    ELSE IF Head(symbols) \notin ALL_NONTERMINALS
    THEN toks[1] = Head(symbols) /\ DerivesSeq(Tail(symbols), Tail(toks))
    ELSE \E j \in (IF Len(symbols) = 1 THEN { Len(toks) }
                   ELSE 1..(Len(toks) - Len(symbols) + 1)) :
            /\ \E prod \in SeqToSet(Lookup(gramatica, Head(symbols))) :
                  DerivesSeq(prod, SubSeq(toks, 1, j))
            /\ DerivesSeq(Tail(symbols), SubSeq(toks, j + 1, Len(toks)))

\* the positions p such that toks[1..p] is a list of commands of at most CommandLen
\* terminals each
CommandBoundaries(toks) ==
    FoldSeq(LAMBDA acc, p :
                IF \E q \in acc : /\ p - q <= CommandLen
                                  /\ DerivesSeq(<< "COMANDO" >>, SubSeq(toks, q + 1, p))
                THEN acc \cup { p } ELSE acc,
            { 0 }, [p \in 1..Len(toks) |-> p])

\* PROGRAMA derives toks (PROGRAMA -> LISTA_DE_COMANDOS, a non-empty list of COMANDO),
\* with commands of at most CommandLen terminals
IsSentence(toks) == toks # << >> /\ Len(toks) \in CommandBoundaries(toks)

RECURSIVE LeavesOf(_, _)
\* the terminal leaves under node n, left to right, as (symbol, lexeme) pairs
LeavesOf(nodes, n) ==
    IF nodes[n].children = << >>
    THEN IF is_terminal(nodes[n].symbol) THEN << << nodes[n].symbol, nodes[n].lexeme >> >>
         ELSE << >>
    ELSE FoldSeq(LAMBDA acc, child : acc \o LeavesOf(nodes, child), << >>, nodes[n].children)

(***************************************************************************)
(* Properties                                                              *)
(***************************************************************************)
\* the loop is at a step that passes the step-limit test
StepBegins == pc = "loop" /\ ~(step_count + 1 > STEP_LIMIT)

\* C1: the loop body runs at most STEP_LIMIT times: every step of the loop counts one,
\* the count never passes STEP_LIMIT + 1, and the step that takes the count over
\* STEP_LIMIT ends parse with success = false, the 4-tuple return, the tree and the
\* error list as they were.
C1_StepCap ==
    /\ [](step_count <= STEP_LIMIT + 1)
    /\ [][pc = "loop" => step_count' = step_count + 1]_vars
    /\ [][(pc = "loop" /\ step_count + 1 > STEP_LIMIT) =>
            /\ pc' = "done"
            /\ result' = [exit |-> "step_limit", success |-> FALSE, arity |-> 4]
            /\ UNCHANGED << tree_vars, error_list, stack >>]_vars

C1_Witness == pc = "done" /\ result.exit = "step_limit" /\ step_count = STEP_LIMIT + 1

\* C2: for a token list that is a sentence of the grammar, parse with the table built
\* from the grammar returns success = true, an empty error list and a tree whose
\* terminal leaves are the filtered tokens in order.
C2_SentenceAccepted ==
    (pc = "done" /\ ~edited) =>
        \/ /\ result.success
           /\ error_list = << >>
           /\ root # 0
           /\ LeavesOf(all_nodes, root) = token_tuples
        \/ ~IsSentence(TokenNames(token_tuples))

\* C3: parse ends by Accept, by the recovery-loop abort or by the step-limit abort,
\* with the 4-tuple return, and in no other way.
C3_ThreeExits ==
    (pc = "done" /\ ~edited) =>
        /\ result.exit \in { "accept", "error_loop", "step_limit" }
        /\ result.arity = 4
        /\ result.success = (result.exit = "accept")

\* an output statement without its ';', at the end of the input or before another statement
MissingSemicolon == { WithLines(InOutputNoSemi), WithLines(InOutputThenOutput) }
\* the line of the token that stands where the ';' should
UnexpectedLine(tl) ==
    IF Len(tl) > Len(InOutputNoSemi) THEN tl[Len(InOutputNoSemi) + 1][3] ELSE tl[Len(tl)][3]

\* C4: for an output statement whose ';' is missing parse returns success = false and an
\* error list with exactly one syntax-error entry, which cites the line of the
\* unexpected token.
C4_MissingSemicolon ==
    (pc = "done" /\ ~edited /\ token_list \in MissingSemicolon) =>
        /\ ~result.success
        /\ result.arity = 4
        /\ Len(SelectSeq(error_list, LAMBDA e : e.kind = "syntax")) = 1
        /\ \A k \in 1..Len(error_list) :
              error_list[k].kind = "syntax" => error_list[k].line = UnexpectedLine(token_list)

\* the input has StressLen tokens and each has action Error in the initial state, which
\* stays on top of the stack while tokens are skipped
AllTokensError ==
    /\ Len(token_tuples) = StressLen
    /\ \A k \in 1..Len(token_tuples) :
          startswith(action_of(parse_slr_dict, token_tuples[k][1], InitialState), "e")
AllTokensEqual == \A k \in 1..Len(token_tuples) : token_tuples[k] = token_tuples[1]
\* parse ended by the error-streak abort, before the step limit, with fewer than
\* StressLen entries
StreakAbort ==
    /\ result.exit = "error_loop"
    /\ ~result.success
    /\ step_count <= STEP_LIMIT
    /\ Len(error_list) < StressLen

\* C5 as stated: for StressLen tokens that all have action Error, parse ends by the
\* error-streak abort before the step limit, with fewer than StressLen error entries.
C5_AnyErrorTokens == (pc = "done" /\ AllTokensError) => StreakAbort

\* C5, amended: for StressLen equal tokens with action Error, parse ends by the
\* error-streak abort before the step limit, with fewer than StressLen error entries.
C5_EqualErrorTokens == (pc = "done" /\ AllTokensError /\ AllTokensEqual) => StreakAbort

C5_Witness == pc = "done" /\ AllTokensError /\ AllTokensEqual /\ result.exit = "error_loop"

\* the step at hand is a reduce whose GOTO cell is empty
MissingGoto ==
    /\ StepBegins
    /\ startswith(action, "r")
    /\ goto_state(parse_slr_dict, stack, reduce_production_of(action)) = TXT_empty

\* C6: a reduce that finds no GOTO entry ends parse at that step with success = false
\* and no tree node for the reduce; after parse has ended there is no further step.
C6_MissingGotoAborts ==
    /\ [][MissingGoto =>
            /\ pc' = "done"
            /\ ~result'.success
            /\ UNCHANGED tree_vars]_vars
    /\ [][pc = "done" => pc' = "done" /\ result' = result]_vars

C6_Witness == pc = "done" /\ result.exit = "no_goto" /\ ~result.success

\* C7: whenever the action is Error, parse appends one entry that names the current token
\* and goes on (or, the streak limit reached, appends the loop entry too and ends); also
\* at the end marker with every token shifted, and for the empty input.
C7_ErrorRecorded ==
    [][(StepBegins /\ ~edited /\ startswith(action, "e")) =>
          /\ Len(error_list') > Len(error_list)
          /\ error_list'[Len(error_list) + 1].kind = "syntax"
          /\ error_list'[Len(error_list) + 1].token = current_token
          /\ \/ pc' = "loop" /\ Len(error_list') = Len(error_list) + 1
             \/ result'.exit = "error_loop"]_vars

\* C8: a current token that is no column of the loaded table is a recoverable syntax
\* error: one entry is appended, the token is skipped, parse does not return.
C8_UnknownTokenSkipped ==
    [][(StepBegins /\ current_token \notin DOMAIN parse_slr_dict) =>
          /\ Len(error_list') = Len(error_list) + 1
          /\ pc' = "loop"
          /\ stack' = stack]_vars

\* C9: the build gives the same states, transitions and table cells whatever the order
\* sets are iterated in: those of the build that iterates in increasing rank.
C9_BuildDeterministic ==
    pc \in { "saved", "loaded" } =>
        /\ states = lr0_asc.states
        /\ transitions = lr0_asc.transitions
        /\ table = table_asc

\* the action the builder stored for state s and column t
stored_action(tbl, s, t) ==
    IF s \in DOMAIN tbl.action THEN DictGet(tbl.action[s], t) ELSE TXT_empty

\* C10: the table loaded from the file that save_slr_table wrote has, for every state
\* and every terminal-or-end column, the stored action, and for every nonterminal
\* column the stored GOTO target, or the empty text when there is none.
C10_SaveLoadRoundTrip ==
    (pc = "loaded" /\ ~edited) =>
        /\ DOMAIN slr_dict = SeqToSet(TerminalColumns) \cup SeqToSet(SortedNonterminals)
        /\ \A col \in DOMAIN slr_dict : Len(slr_dict[col]) = Len(states)
        /\ \A s \in 0..(Len(states) - 1) :
              /\ \A t \in SeqToSet(TerminalColumns) :
                    slr_dict[t][s + 1] = stored_action(table, s, t)
              /\ \A A \in SeqToSet(SortedNonterminals) :
                    IF s \in DOMAIN table.goto /\ A \in DOMAIN table.goto[s]
                    THEN /\ IsDigits(slr_dict[A][s + 1])
                         /\ int(slr_dict[A][s + 1]) = table.goto[s][A]
                    ELSE slr_dict[A][s + 1] = TXT_empty

C10_Witness ==
    /\ pc = "loaded"
    /\ ~edited
    /\ \E s \in DOMAIN table.goto : \E A \in DOMAIN table.goto[s] : table.goto[s][A] > 9
    /\ \E s \in DOMAIN table.action : \E t \in DOMAIN table.action[s] :
          startswith(table.action[s][t], "r")

(***************************************************************************)
(* Properties of the FIRST/FOLLOW sets and of augment_grammar               *)
(***************************************************************************)
\* the sets that compute_first_follow computes for the grammar at hand
computed_sets == compute_first_follow(input_grammar)

\* C11: with the file written by compute_first_follow, what compute_first_follow
\* returns (the computed sets, or the sets read back from the file) has for every
\* nonterminal exactly the members of the computed FIRST and FOLLOW sets, empty sets
\* included.
C11_FirstFollowRoundTrip ==
    (pc = "grammar" /\ ff_csv # NoFile) =>
        /\ DOMAIN ff_set = KeySet(input_grammar)
        /\ \A nt \in KeySet(input_grammar) :
              /\ ff_set[nt].first = computed_sets[nt].first
              /\ ff_set[nt].follow = computed_sets[nt].follow

\* C17: in the sets that compute_first_follow returns, FOLLOW of the first declared
\* nonterminal contains the end marker.
C17_StartFollowHasEndmark ==
    (pc = "grammar" /\ ff_csv # NoFile) =>
        ENDMARK \in ff_set[Keys(input_grammar)[1]].follow

\* compute_first_follow has returned for a grammar whose start symbol stands on a
\* right-hand side
C17_Witness ==
    /\ pc = "grammar"
    /\ ff_csv # NoFile
    /\ \E k \in 1..Len(input_grammar) : \E prod \in SeqToSet(input_grammar[k][2]) :
          Keys(input_grammar)[1] \in SeqToSet(prod)
    /\ ENDMARK \in ff_set[Keys(input_grammar)[1]].follow

\* applying compute_first and compute_follow once more to every nonterminal adds nothing
IsFixedPoint(sets, g) ==
    LET first == [nt \in KeySet(g) |-> sets[nt].first]
        follow == [nt \in KeySet(g) |-> sets[nt].follow]
    IN  \A nt \in KeySet(g) :
           /\ compute_first(Lookup(g, nt), g) \subseteq first[nt]
           /\ compute_follow(nt, g, first, follow) \subseteq follow[nt]

\* C18: the sets that compute_first_follow computes (the call that finds no file) are
\* a fixed point of compute_first and compute_follow.
C18_FixedPoint ==
    [][(pc = "grammar" /\ ff_csv = NoFile /\ ff_csv' # NoFile) =>
          IsFixedPoint(ff_set', input_grammar)]_vars

\* C19: augment_grammar returns the production S' -> (first key of the input) followed
\* by the entries of the input in their order, and the input is as it was.
C19_AugmentPrepends ==
    [][(pc = "grammar" /\ augmented' # augmented) =>
          /\ augmented'[1] = << "S'", << << Keys(input_grammar)[1] >> >> >>
          /\ Tail(augmented') = input_grammar
          /\ input_grammar' = input_grammar]_vars

\* augment_grammar has returned for a grammar of several rules
C19_Witness ==
    /\ pc = "grammar"
    /\ augmented # NoGrammar
    /\ Len(input_grammar) > 1
    /\ Len(augmented) = Len(input_grammar) + 1

(***************************************************************************)
(* Properties of the table and of derv                                     *)
(***************************************************************************)
\* the complete items A -> alpha. of state s, other than S' -> PROGRAMA.
CompleteItems(s) == { item \in states[s + 1] : item[3] = << >> /\ item[1] # "S'" }
\* the number build_slr_table writes for the complete item
ReduceNumber(item) == ProductionIndex(table_productions(augmented_grammar), item[1], item[2])

\* C12: every reduce cell r<p> of the loaded table stands for a complete item A -> alpha
\* of its state, and for every complete item A -> alpha with number p the parser's
\* prods[p] is alpha and the left-hand side the parser finds for it is A.
C12_ProductionNumbering ==
    (pc = "loaded" /\ ~edited) =>
        \A s \in 0..(Len(states) - 1) :
            /\ \A item \in CompleteItems(s) :
                  /\ prods[ReduceNumber(item) + 1] = item[2]
                  /\ lhs_of(prods[ReduceNumber(item) + 1]) = item[1]
            /\ \A t \in SeqToSet(TerminalColumns) :
                  startswith(slr_dict[t][s + 1], "r") =>
                      /\ IsDigits(Tail(slr_dict[t][s + 1]))
                      /\ \E item \in CompleteItems(s) :
                            int(Tail(slr_dict[t][s + 1])) = ReduceNumber(item)

\* a table was loaded that has a reduce cell with a production number of two digits
C12_Witness ==
    /\ pc = "loaded"
    /\ ~edited
    /\ \E s \in 0..(Len(states) - 1) : \E t \in SeqToSet(TerminalColumns) :
          /\ startswith(slr_dict[t][s + 1], "r")
          /\ Len(slr_dict[t][s + 1]) = 3
          /\ CompleteItems(s) # {}

\* the categories the lexer gives to a comment, a line break, a tab and a space
SpaceCategories == { "COMENTARIO", "QUEBRA DE LINHA", "TABULACAO", "ESPACO" }
\* the tokens of the lexer's list that are none of these, in their order
MeaningfulTokens(tokens) == SelectSeq(tokens, LAMBDA token : token[2] \notin SpaceCategories)

\* C13: the token list that read_tuples hands to the parser has the lexemes of the
\* tokens that are no space, tab, line break or comment, in their order, and no other.
LexemesOf(tokens) == [k \in 1..Len(tokens) |-> tokens[k][1]]
C13_SpaceTokensRemoved ==
    [][pc = "derv" =>
          LET read == InputData[input']
          IN  [k \in 1..Len(read.token_tuples) |-> read.token_tuples[k][2]]
                  = LexemesOf(MeaningfulTokens(read.token_list))]_vars

\* the categories that keep their name as the first member of the pair
NamedCategories == { "id", "valor_inteiro", "valor_real", "string" }

\* the pair for a kept token, and the pairs and the lines for a list of kept tokens
PairOf(token) ==
    IF token[2] \in NamedCategories THEN << token[2], token[1] >> ELSE << token[1], token[1] >>
PairsOf(kept) == [k \in 1..Len(kept) |-> PairOf(kept[k])]
LinesOf(kept) == [k \in 1..Len(kept) |-> kept[k][3]]

\* C14: for the k-th token that read_tuples keeps, token_tuples[k] is (category, lexeme)
\* for the categories id, valor_inteiro, valor_real and string, and (lexeme, lexeme) for
\* every other; line_list is as long as token_tuples and line_list[k] is that token's line.
C14_TuplePairs ==
    [][pc = "derv" =>
          LET read == InputData[input']
          IN  /\ read.token_tuples = PairsOf(read_tuples_filter(read.token_list))
              /\ read.line_list = LinesOf(read_tuples_filter(read.token_list))
              /\ Len(read.line_list) = Len(read.token_tuples)]_vars

\* read_tuples has returned for a list with a keyword, an id and a space
C14_Witness ==
    /\ pc = "parse"
    /\ Len(token_tuples) < Len(token_list)
    /\ \E k \in 1..Len(token_tuples) : token_tuples[k] = << "id", "x" >>
    /\ \E k \in 1..Len(token_tuples) : token_tuples[k] = << "chimpanzini", "chimpanzini" >>

\* C15: when data/slr_table.csv is missing or cannot be read, read_slr_table returns the
\* empty table and derv returns before parse: no step of parse is taken, there is no
\* tree and no result of parse.
C15_NoTableNoParse ==
    ~readable =>
        /\ try_read_slr_table(slr_csv, readable) = EmptyDict
        /\ pc \in { "derv", "parse", "returned" }
        /\ step_count = 0
        /\ stack = << >>
        /\ all_nodes = << >>
        /\ node_stack = << >>
        /\ root = 0
        /\ error_list = << >>
        /\ result = NoResult

\* derv has returned without a table, for a token list that is not empty
C15_Witness == pc = "returned" /\ ~readable /\ token_tuples # << >>

(***************************************************************************)
(* Properties of the derivation tree                                       *)
(***************************************************************************)
RECURSIVE ReachesRoot(_, _, _, _)
\* the parent links lead from node n to node r in at most fuel steps
ReachesRoot(nodes, n, r, fuel) ==
    IF n = r THEN TRUE
    ELSE IF fuel = 0 \/ nodes[n].parent = 0 THEN FALSE
    ELSE ReachesRoot(nodes, nodes[n].parent, r, fuel - 1)

\* how often node n stands in the children list of node m
TimesChildOf(nodes, n, m) ==
    Cardinality({ k \in 1..Len(nodes[m].children) : nodes[m].children[k] = n })

\* C20: when parse returns by Accept, the root is set, is the only node on the node
\* stack, is labelled PROGRAMA and has no parent; every other node has exactly one
\* parent, is once in that parent's children and in no other node's, and descends from
\* the root.
C20_AcceptedTree ==
    (pc = "done" /\ result.exit = "accept") =>
        /\ root # 0
        /\ node_stack = << root >>
        /\ all_nodes[root].symbol = "PROGRAMA"
        /\ all_nodes[root].parent = 0
        /\ \A n \in (1..Len(all_nodes)) \ { root } :
              /\ all_nodes[n].parent # 0
              /\ TimesChildOf(all_nodes, n, all_nodes[n].parent) = 1
              /\ \A m \in (1..Len(all_nodes)) \ { all_nodes[n].parent } :
                    TimesChildOf(all_nodes, n, m) = 0
              /\ ReachesRoot(all_nodes, n, root, Len(all_nodes))

\* parse has accepted after it skipped a token
C20_Witness ==
    /\ pc = "done"
    /\ result.exit = "accept"
    /\ error_list # << >>
    /\ Len(all_nodes) > 3

(***************************************************************************)
(* Two parses on one table                                                 *)
(***************************************************************************)
\* a call that has returned from parse has what parse returns when it runs alone
SameAsAlone(c) ==
    c.pc = "done" => Outcome(c) = AloneOutcome[order][edited][c.input]

\* C16: under any interleaving of the steps of two calls that share the grammar and the
\* loaded table, each call returns the success flag, stack, tree and error list that it
\* returns when it runs alone, and no step changes the table or the grammar.
C16_ParsesIndependent ==
    /\ [](SameAsAlone(running) /\ SameAsAlone(other_call))
    /\ [][/\ slr_dict_of(order', edited') = slr_dict_of(order, edited)
          /\ slr_dict' = slr_dict
          /\ input_grammar' = input_grammar]_vars

\* one call has returned from parse while the other one is in the middle of its loop
C16_Witness ==
    /\ pc = "done"
    /\ other_call.pc = "loop"
    /\ other_call.step_count > 1
    /\ input # other_call.input
    /\ error_list # << >>

(***************************************************************************)
(* The steps of parse                                                      *)
(***************************************************************************)
\* the nodes that reduces created are in all_nodes in the order of the reduces: the
\* number of the first node for the nonterminal nt, 0 if there is none
FirstReduce(nodes, nt) ==
    LET hits == { n \in 1..Len(nodes) : nodes[n].symbol = nt }
    IN  IF hits = {} THEN 0 ELSE CHOOSE n \in hits : \A m \in hits : n <= m

\* C21: for the tokens of a declaration with initialiser (type, id, '=', valor_inteiro,
\* ';') the first reduces to DECLARACAO, COMANDO, LISTA_DE_COMANDOS and PROGRAMA happen in
\* this order, and parse accepts with a root that has exactly one child.
C21_DeclarationReduces ==
    (pc = "done" /\ input = Repeated(InDeclaration, Len(InDeclaration))) =>
        /\ result.exit = "accept"
        /\ 0 < FirstReduce(all_nodes, "DECLARACAO")
        /\ FirstReduce(all_nodes, "DECLARACAO") < FirstReduce(all_nodes, "COMANDO")
        /\ FirstReduce(all_nodes, "COMANDO") < FirstReduce(all_nodes, "LISTA_DE_COMANDOS")
        /\ FirstReduce(all_nodes, "LISTA_DE_COMANDOS") < FirstReduce(all_nodes, "PROGRAMA")
        /\ root = FirstReduce(all_nodes, "PROGRAMA")
        /\ Len(all_nodes[root].children) = 1

\* parse has returned for the declaration
C21_Witness ==
    /\ pc = "done"
    /\ input = Repeated(InDeclaration, Len(InDeclaration))
    /\ result.success
    /\ root # 0

\* the action of the running step is Error and the step limit lets the step through
ErrorStepBegins ==
    /\ pc = "loop"
    /\ ~step_limit_exceeded(step_count + 1)
    /\ startswith(action, "e")

\* s is t with entries appended
IsExtension(s, t) == Len(s) > Len(t) /\ SubSeq(s, 1, Len(t)) = t

ShiftedSinceLastError ==
    /\ error_list # << >>
    /\ \E n \in 1..Len(all_nodes) :
          /\ is_terminal(all_nodes[n].symbol)
          /\ all_nodes[n].line > error_list[Len(error_list)].line

\* C23: the count of the error streak is restarted by any Shift or Reduce step between
\* two Error steps and by an Error step with another (state, token) pair, so that the
\* abort fires only after ERROR_STREAK_LIMIT consecutive Error steps with one pair.
C23_StreakRestarts ==
    [][(ErrorStepBegins /\ line_count > 0 /\ ShiftedSinceLastError) => error_streak' = 1]_vars

\* the action of the running step is Shift and the step limit lets the step through
ShiftStepBegins ==
    /\ pc = "loop"
    /\ ~step_limit_exceeded(step_count + 1)
    /\ startswith(action, "s")

\* the node for the token (category, lexeme) of line `line`, shifted to state next_state
TerminalNode(pair, line, next_state) ==
    [symbol |-> pair[1], lexeme |-> pair[2], state |-> next_state, line |-> line,
     parent |-> 0, children |-> << >>]

\* C24: every Shift pushes the category of the current token and the target state on
\* the main stack and creates one terminal node with that category, the literal lexeme
\* of the same token and its source line, also for a token shifted after Error steps.
C24_ShiftCreatesTerminal ==
    [][ShiftStepBegins =>
          /\ stack' = stack \o << SymbolEntry(all_tokens[tokens_popped][1]),
                                  StateEntry(int(Tail(action))) >>
          /\ all_nodes' = Append(all_nodes,
                                 TerminalNode(all_tokens[tokens_popped],
                                              InputData[input].line_list[tokens_popped],
                                              int(Tail(action))))
          /\ node_stack' = Append(node_stack, Len(all_nodes) + 1)]_vars

\* the action of the running step is Reduce and the step limit lets the step through
ReduceStepBegins ==
    /\ pc = "loop"
    /\ ~step_limit_exceeded(step_count + 1)
    /\ startswith(action, "r")

\* the reduce by `production` with k symbols of a step from (stk, nstack, nodes) to
\* (stk2, nstack2, nodes2): 2k entries leave the main stack, and if the step is completed
\* (completed = TRUE) the k top nodes leave the node stack and are the children, in
\* their order, of the one new node
ReducesBy(production, k, stk, nstack, nodes, stk2, nstack2, nodes2, completed) ==
    /\ Len(stk) - 2 >= 2 * k
    /\ Len(nstack) >= k
    /\ SubSeq(stk2, 1, Len(stk) - 2 * k + 1) =
          Append(SubSeq(stk, 1, Len(stk) - 2 * k), SymbolEntry(lhs_of(production)))
    /\ completed =>
          /\ Len(stk2) = Len(stk) - 2 * k + 2
          /\ Len(nodes2) = Len(nodes) + 1
          /\ nodes2[Len(nodes2)].symbol = lhs_of(production)
          /\ nodes2[Len(nodes2)].children = SubSeq(nstack, Len(nstack) - k + 1, Len(nstack))
          /\ nstack2 = Append(SubSeq(nstack, 1, Len(nstack) - k), Len(nodes2))
          /\ \A n \in 1..Len(nodes) :
                nodes2[n].parent = IF n \in SeqToSet(nodes2[Len(nodes2)].children)
                                   THEN Len(nodes2) ELSE nodes[n].parent

\* C25: every reduce by a production with k right-hand-side symbols removes exactly 2k
\* entries from the main stack and exactly k nodes from the node stack, makes those nodes
\* the children, in their order, of one new node for the left-hand side and pushes that
\* node; the guards that stop popping early never take effect.
C25_ReducePopsExactly ==
    [][ReduceStepBegins =>
          ReducesBy(reduce_production_of(action), Len(reduce_production_of(action)),
                    stack, node_stack, all_nodes, stack', node_stack', all_nodes',
                    pc' = "loop")]_vars

\* a reduce by a production of more than one symbol was completed
C25_Witness ==
    /\ pc = "loop"
    /\ all_nodes # << >>
    /\ Len(all_nodes[Len(all_nodes)].children) > 1

(***************************************************************************)
(* The stacks of parse                                                     *)
(***************************************************************************)
\* the entries of stk are by turns of the kind of its first entry and of the other kind
Alternates(stk) ==
    \A k \in 1..(Len(stk) - 1) : IsStateEntry(stk[k]) # IsStateEntry(stk[k + 1])

\* C26 as stated: at the start of every loop step the main stack alternates state ids and
\* grammar symbols, has a state id on top and has odd length.
C26_StackOddLength ==
    pc = "loop" =>
        /\ Alternates(stack)
        /\ IsStateEntry(stack[Len(stack)])
        /\ Len(stack) % 2 = 1

\* C26, amended: at the start of every loop step the main stack is the end marker followed
\* by state ids and grammar symbols by turns, has a state id on top and has even length.
C26_StackEvenLength ==
    pc = "loop" =>
        /\ stack[1] = SymbolEntry(ENDMARK)
        /\ Alternates(stack)
        /\ IsStateEntry(stack[Len(stack)])
        /\ Len(stack) % 2 = 0

\* a loop step begins with symbols on the stack
C26_Witness ==
    /\ pc = "loop"
    /\ Len(stack) > 4
    /\ step_count > 2

\* C27: at the start of every loop step the node stack is paired with the grammar symbols
\* of the main stack above the end marker: as many nodes as symbols, and the i-th node
\* carries the i-th symbol.
C27_NodeStackPaired ==
    pc = "loop" =>
        /\ 2 * Len(node_stack) = Len(stack) - 2
        /\ \A k \in 1..Len(node_stack) :
              all_nodes[node_stack[k]].symbol = stack[2 * k + 1].symbol

\* a loop step begins with a terminal node and a nonterminal node on the node stack
C27_Witness ==
    /\ pc = "loop"
    /\ \E j, k \in 1..Len(node_stack) :
          /\ is_terminal(all_nodes[node_stack[j]].symbol)
          /\ ~is_terminal(all_nodes[node_stack[k]].symbol)

\* C28: at every point of a parse the number of nodes in all_nodes is the number of
\* Shift steps plus the number of completed Reduce steps so far; Error steps create no
\* node.  (Every step that goes on is a Shift, a completed Reduce, or an Error step that
\* appends one entry to the error list: the Shift and Reduce steps so far are step_count
\* less the entries of the error list; the step that returns creates no node.)
C28_NodeCount ==
    /\ [](pc = "loop" => Len(all_nodes) = step_count - Len(error_list))
    /\ [][(pc = "loop" /\ (pc' = "done" \/ ErrorStepBegins)) =>
             all_nodes' = all_nodes]_vars

\* shifts, reduces and an error have happened
C28_Witness ==
    /\ pc = "loop"
    /\ error_list # << >>
    /\ Len(all_nodes) > 3
    /\ \E n \in 1..Len(all_nodes) : all_nodes[n].children # << >>

(***************************************************************************)
(* Conflicts in build_slr_table                                            *)
(***************************************************************************)
\* the complete items of state s that write the cell of terminal t
ReduceClaimants(s, t) == { item \in CompleteItems(s) : t \in ff_set[item[1]].follow }

\* the table is finished
TableBuilt == pc \in { "save_slr_table", "saved", "loaded" }

\* C30: when two complete items of one state claim the same cell, the finished cell holds
\* the Reduce of the production that comes later in the production order, whatever order
\* the items of the state are visited in.
C30_LaterReduceWins ==
    TableBuilt =>
        \A s \in 0..(Len(states) - 1) : \A t \in SeqToSet(TerminalColumns) :
            Cardinality(ReduceClaimants(s, t)) >= 2 =>
                table.action[s][t] =
                    ReduceText(Max({ ReduceNumber(item) : item \in ReduceClaimants(s, t) }))

\* state s has an item A -> alpha . t beta and a transition on t
HasShiftItem(s, t) ==
    /\ << s, t >> \in DOMAIN transitions
    /\ \E item \in states[s + 1] : item[3] # << >> /\ item[3][1] = t

\* C29: a cell that holds a Shift is never replaced by a Reduce, whatever order the items
\* of the state are processed in: if a state has a shift item on the terminal t and a
\* complete item whose FOLLOW contains t, the finished cell is the Shift.
C29_ShiftKept ==
    (pc = "grammar" /\ table # NoTable) =>
        \A s \in 0..(Len(states) - 1) : \A t \in ALL_TERMINALS :
            (HasShiftItem(s, t) /\ ReduceClaimants(s, t) # {}) =>
                table.action[s][t] = ShiftText(transitions[<< s, t >>])

\* ---------------------------------------------------------------------------------------
\* the default-fill pass, the automaton and the table
\* ---------------------------------------------------------------------------------------

\* the step of build_slr_table that runs the default-fill pass
FillStepBegins == pc = "build_slr_table" /\ pc' = "save_slr_table"

\* the row holds at least one Reduce
HasReduce(row) == \E t \in DOMAIN row : startswith(row[t], "r")

\* C31: after the default-fill pass, in every state row that holds a Reduce, every
\* terminal or end-marker column that the per-item pass left empty holds a Reduce, and the
\* row holds no Error cell.
C31_ReduceRowsFilled ==
    [][FillStepBegins =>
        \A s \in DOMAIN table.action :
            HasReduce(table.action[s]) =>
                \A t \in SeqToSet(TerminalColumns) :
                    /\ t \notin DOMAIN table.action[s] => startswith(table'.action[s][t], "r")
                    /\ table'.action[s][t] # TXT_error]_vars

\* the ids of the discovered states
StateIds == 0..(Len(states) - 1)

\* the cell GOTO[s][A] is set
HasGoto(s, A) == s \in DOMAIN table.goto /\ A \in DOMAIN table.goto[s]

\* C32: the finished table mirrors the transition function of the automaton: GOTO[s][A] is
\* set exactly when a transition (s, A) was recorded for the nonterminal A, and holds its
\* target; every Shift cell at (s, t) holds the target of the recorded transition (s, t);
\* every target is the id of a discovered state.
C32_TableMirrorsTransitions ==
    TableBuilt =>
        /\ DOMAIN table.goto \subseteq StateIds
        /\ \A s \in DOMAIN table.goto : DOMAIN table.goto[s] \subseteq KeySet(augmented)
        /\ \A s \in StateIds : \A A \in KeySet(augmented) :
              /\ HasGoto(s, A) <=> << s, A >> \in DOMAIN transitions
              /\ HasGoto(s, A) => /\ table.goto[s][A] = transitions[<< s, A >>]
                                  /\ table.goto[s][A] \in StateIds
        /\ \A s \in DOMAIN table.action : \A t \in DOMAIN table.action[s] :
              startswith(table.action[s][t], "s") =>
                  /\ << s, t >> \in DOMAIN transitions
                  /\ table.action[s][t] = << "s" >> \o str(transitions[<< s, t >>])
                  /\ transitions[<< s, t >>] \in StateIds
        /\ \A key \in DOMAIN transitions : transitions[key] \in StateIds

\* the finished table has a GOTO cell and a Shift cell
C32_Witness ==
    /\ TableBuilt
    /\ \E s \in StateIds : \E A \in KeySet(augmented) : HasGoto(s, A) /\ table.goto[s][A] # s
    /\ \E s \in DOMAIN table.action : \E t \in DOMAIN table.action[s] :
          startswith(table.action[s][t], "s")

\* the cell was set by the per-item pass: a Shift, a Reduce or the Accept
IsAction(cell) == startswith(cell, "s") \/ startswith(cell, "r") \/ cell = TXT_acc

\* the cell holds one of s<N>, r<N>, acc, error
IsCellText(cell) ==
    \/ (startswith(cell, "s") \/ startswith(cell, "r")) /\ IsDigits(Tail(cell))
    \/ cell = TXT_acc
    \/ cell = TXT_error

\* C39: the default-fill pass changes no cell that the per-item pass set, and after it every
\* state row has a value for every terminal and for the end marker, each one of s<N>, r<N>,
\* acc or error.
C39_FillKeepsCells ==
    [][FillStepBegins =>
        /\ \A s \in DOMAIN table.action : \A t \in DOMAIN table.action[s] :
              /\ IsAction(table.action[s][t])
              /\ s \in DOMAIN table'.action /\ t \in DOMAIN table'.action[s]
              /\ table'.action[s][t] = table.action[s][t]
        /\ DOMAIN table'.action = DOMAIN table.action
        /\ \A s \in DOMAIN table'.action : \A t \in SeqToSet(TerminalColumns) :
              /\ t \in DOMAIN table'.action[s]
              /\ IsCellText(table'.action[s][t])]_vars

\* the default-fill pass has run on a table with rows that had empty cells
C39_Witness ==
    /\ pc = "save_slr_table"
    /\ DOMAIN table.action = StateIds
    /\ \E s \in DOMAIN table.action : \E t, u, v \in DOMAIN table.action[s] :
          /\ startswith(table.action[s][t], "s")
          /\ startswith(table.action[s][u], "r")
          /\ table.action[s][v] = TXT_error

\* ---------------------------------------------------------------------------------------
\* compute_lr0_states
\* ---------------------------------------------------------------------------------------

\* compute_lr0_states has begun: states holds the states discovered so far
Discovering == pc # "main"

\* the nonterminal right after the dot of the item, if there is one
DotBeforeNonterminal(item) == item[3] # << >> /\ item[3][1] \in KeySet(augmented)

\* for every item of the set with a nonterminal B right after the dot and every production
\* B -> gamma, the item B -> . gamma is in the set
ClosureClosed(item_set) ==
    \A item \in item_set :
        DotBeforeNonterminal(item) =>
            \A production \in SeqToSet(Lookup(augmented, item[3][1])) :
                << item[3][1], << >>, production >> \in item_set

\* C33: every state that compute_lr0_states discovers is closure-closed, and closure
\* leaves it as it is.
C33_StatesClosed ==
    Discovering =>
        \A k \in 1..Len(states) :
            /\ ClosureClosed(states[k])
            /\ closure(states[k], augmented) = states[k]

\* a state reached by goto has a kernel item with the dot before a nonterminal, and the
\* items of that nonterminal have in turn the dot before another nonterminal
C33_Witness ==
    /\ Discovering
    /\ \E k \in 2..Len(states) : \E item, added \in states[k] :
          /\ item[2] # << >> /\ DotBeforeNonterminal(item)
          /\ added[1] = item[3][1] /\ added[2] = << >> /\ DotBeforeNonterminal(added)
          /\ added[3][1] # added[1]

\* t begins with s
IsPrefix(s, t) == Len(s) <= Len(t) /\ SubSeq(t, 1, Len(s)) = s

\* the symbols right after a dot in the item set
SymbolsAfterDot(item_set) == { item[3][1] : item \in { it \in item_set : it[3] # << >> } }

\* the transition (s, X) is recorded and points to the state whose item set is goto(s, X)
Linked(s, X) ==
    /\ << s, X >> \in DOMAIN transitions
    /\ transitions[<< s, X >>] \in StateIds
    /\ states[transitions[<< s, X >>] + 1] = goto(states[s + 1], X, augmented)

\* no two ids denote the same item set, and state 0 is the closure of S' -> . start
DistinctStates ==
    /\ \A j, k \in 1..Len(states) : states[j] = states[k] => j = k
    /\ states[1] = closure({ << "S'", << >>, << Keys(augmented)[2] >> >> }, augmented)

\* C34 as stated: throughout compute_lr0_states no two ids denote set-equal item sets,
\* state 0 is the closure of S' -> . start, and for every state s and every symbol X right
\* after a dot in s the transition (s, X) is recorded and points to goto(s, X).
C34_EveryStateLinked ==
    pc = "compute_lr0_states" =>
        /\ DistinctStates
        /\ \A s \in StateIds : \A X \in SymbolsAfterDot(states[s + 1]) : Linked(s, X)

\* compute_lr0_states is running
Running_lr0 == pc = "compute_lr0_states"

\* the states the worklist index has passed are linked
ProcessedLinked ==
    /\ DistinctStates
    /\ \A s \in StateIds :
          s < i => \A X \in SymbolsAfterDot(states[s + 1]) : Linked(s, X)

\* C34, amended: throughout compute_lr0_states no two ids denote set-equal item sets, a
\* state keeps the id it got when it was appended (ids are the positions in the list, new
\* states go to the end), state 0 is the closure of S' -> . start, and for every state s
\* that the worklist index has passed (every state, when the function returns) and every
\* symbol X right after a dot in s the transition (s, X) is recorded and points to the
\* state whose item set equals goto(s, X).
C34_ProcessedStatesLinked ==
    [][(Running_lr0 \/ Running_lr0') =>
          /\ ProcessedLinked'
          /\ Running_lr0 => IsPrefix(states, states')]_vars

\* the worklist loop has ended, and a transition points back to an earlier state
C34_Witness ==
    /\ pc = "build_slr_table"
    /\ i = Len(states)
    /\ Len(states) > 2
    /\ \E key \in DOMAIN transitions : transitions[key] <= key[1]

\* every LR(0) item of the grammar: a production with the dot at one of its positions
Lr0Items(grammar) ==
    UNION { UNION { { << grammar[k][1], SubSeq(production, 1, d), SubSeq(production, d + 1, Len(production)) >>
                      : d \in 0..Len(production) }
                    : production \in SeqToSet(grammar[k][2]) }
            : k \in 1..Len(grammar) }

\* the states appended by a step are item sets that were not in the list
AppendsNewSubsets ==
    /\ IsPrefix(states, states')
    /\ \A k \in (Len(states) + 1)..Len(states') :
          /\ states'[k] \subseteq Lr0Items(augmented)
          /\ \A j \in 1..(k - 1) : states'[j] # states'[k]

\* C35: compute_lr0_states terminates for every grammar: the worklist index eventually
\* reaches the end of the state list and the function returns; every step of the loop moves
\* the index by one and appends only item sets of the grammar that were not in the list.
C35_Lr0Terminates ==
    /\ <>(pc = "return" /\ i = Len(states))
    /\ [][pc = "while" => (i' = i + 1 \/ pc' = "return") /\ AppendsNewSubsets]_vars

\* the function has returned the automaton of a grammar with a left-recursive nonterminal,
\* after a loop that met states it had already discovered
C35_Witness ==
    /\ pc = "return"
    /\ i = Len(states)
    /\ Len(states) > 3
    /\ \E k \in 1..Len(augmented) : \E production \in SeqToSet(augmented[k][2]) :
          production[1] = augmented[k][1]
    /\ \E key \in DOMAIN transitions : transitions[key] <= key[1]

\* ---------------------------------------------------------------------------------------
\* compute_first
\* ---------------------------------------------------------------------------------------

\* C36: compute_first terminates for every nonterminal of every grammar, left-recursive
\* nonterminals other than EXPRESSAO and mutually left-recursive nonterminals included: the
\* call returns its set, the recursion never grows without bound.
C36_FirstTerminates == <>(pc = "return")

\* ---------------------------------------------------------------------------------------
\* parse
\* ---------------------------------------------------------------------------------------

\* the state ids that are rows of the loaded table
TableRows == 0..(Len(parse_slr_dict[ENDMARK]) - 1)

\* C37: with the table built from the shipped grammar and loaded as it was saved, for every
\* token sequence every reduce finds a GOTO entry for the state it uncovers, and every state
\* id on the stack is a row of the table, so the lookup by the top state is in range.
C37_GotoDefined ==
    (~edited /\ pc \in { "loop", "done" }) =>
        /\ pc = "done" => result.exit # "no_goto"
        /\ \A k \in 1..Len(stack) : IsStateEntry(stack[k]) => stack[k].state \in TableRows
        /\ IsStateEntry(stack[Len(stack)])

\* a reduce has found its GOTO entry after tokens were skipped, with the saved table
C37_Witness ==
    /\ ~edited
    /\ pc = "loop"
    /\ error_list # << >>
    /\ Len(stack) > 2
    /\ all_nodes # << >>
    /\ all_nodes[Len(all_nodes)].children # << >>
    /\ all_nodes[Len(all_nodes)].state = top

\* C38: parse leaves its arguments as it received them: when the call has returned,
\* line_list holds what it held at the call (nothing was popped from it), as token_tuples
\* does, so that a second call with the same arguments starts from the same lists.
C38_ArgumentsKept == pc = "done" => lines_popped = 0
=============================================================================
